---- MODULE Spec2Model ----
(***************************************************************************)
(* Model of the subplot-grid geometry engine of proplot/subplots.py:       *)
(* FlexibleGridSpec / FlexibleSubplotSpec indexing, the size solver        *)
(* _subplots_geometry, the panel insertion Figure._insert_row_column with  *)
(* its two callers, and the tight-layout pass.                             *)
(*                                                                         *)
(* Lengths are exact rationals <<n, d>> (d > 0, lowest terms).  The solver *)
(* divides numpy scalars, which do not raise on a zero divisor: 0/0 is NaN *)
(* and x/0 is +-inf, written <<0,0>>, <<1,0>>, <<-1,0>>.  Python's None is *)
(* <<0,-1>>.  Sequences are 1-based; the source's 0-based indices are kept *)
(* in the data (xref, yref, slot numbers) and shifted where they index.    *)
(***************************************************************************)
EXTENDS Integers, Sequences, FiniteSets, TLC

\* ------------------------------------------------------------------------
\* Numbers
\* ------------------------------------------------------------------------
None == <<0, -1>>
NaN == <<0, 0>>

IsNone(a) == a[2] = -1

Abs(n) == IF n < 0 THEN -n ELSE n

Sign(n) == IF n < 0 THEN -1 ELSE IF n > 0 THEN 1 ELSE 0

RECURSIVE Gcd(_, _)
Gcd(a, b) == IF b = 0 THEN a ELSE Gcd(b, a % b)

\* the rational n/d in lowest terms, d # 0
Q(n, d) ==
    LET g == Gcd(Abs(n), Abs(d))
        s == Sign(d)
    IN  <<(s * n) \div g, (s * d) \div g>>

I(n) == <<n, 1>>

Zero == I(0)

One == I(1)

IsFin(a) == a[2] > 0

IsNaN(a) == a = NaN

RNeg(a) == <<-a[1], a[2]>>

RAdd(a, b) ==
    IF IsNaN(a) \/ IsNaN(b) THEN NaN
    ELSE IF ~IsFin(a) THEN (IF ~IsFin(b) /\ b # a THEN NaN ELSE a)
    ELSE IF ~IsFin(b) THEN b
    ELSE Q(a[1] * b[2] + b[1] * a[2], a[2] * b[2])

RSub(a, b) == RAdd(a, RNeg(b))

RMul(a, b) ==
    IF IsNaN(a) \/ IsNaN(b) THEN NaN
    ELSE IF ~IsFin(a) \/ ~IsFin(b)
         THEN (IF a[1] = 0 \/ b[1] = 0 THEN NaN ELSE <<Sign(a[1]) * Sign(b[1]), 0>>)
    ELSE Q(a[1] * b[1], a[2] * b[2])

RDiv(a, b) ==
    IF IsNaN(a) \/ IsNaN(b) THEN NaN
    ELSE IF ~IsFin(b) THEN (IF ~IsFin(a) THEN NaN ELSE Zero)
    ELSE IF b[1] = 0 THEN (IF a[1] = 0 THEN NaN ELSE <<Sign(a[1]), 0>>)
    ELSE IF ~IsFin(a) THEN <<Sign(a[1]) * Sign(b[1]), 0>>
    ELSE Q(a[1] * b[2], a[2] * b[1])

\* a < b; every comparison with NaN is false
RLt(a, b) ==
    IF IsNaN(a) \/ IsNaN(b) THEN FALSE
    ELSE IF ~IsFin(a) \/ ~IsFin(b)
         THEN (IF ~IsFin(a) /\ ~IsFin(b) THEN a[1] < b[1]
               ELSE IF ~IsFin(a) THEN a[1] < 0 ELSE b[1] > 0)
    ELSE a[1] * b[2] < b[1] * a[2]

REq(a, b) == ~IsNaN(a) /\ ~IsNaN(b) /\ a = b

RLe(a, b) == RLt(a, b) \/ REq(a, b)

RECURSIVE RSum(_)
RSum(s) == IF s = <<>> THEN Zero ELSE RAdd(s[1], RSum(Tail(s)))

\* Python's s[a:b] for 0-based a, b >= 0
PySlice(s, a, b) ==
    LET hi == IF b > Len(s) THEN Len(s) ELSE b
    IN  IF a >= hi THEN <<>> ELSE SubSeq(s, a + 1, hi)

\* _notNone(a, b)
NotNone(a, b) == IF IsNone(a) THEN b ELSE a

\* ------------------------------------------------------------------------
\* _subplots_geometry
\* ------------------------------------------------------------------------
\* rc['subplots.axwidth'], in inches
DefaultAxWidth == 2

\* ratio_idxs, = np.where(~mask): the main slots (tag ''), in increasing order
RECURSIVE MainIdxFrom(_, _)
MainIdxFrom(panels, i) ==
    IF i > Len(panels) THEN <<>>
    ELSE IF panels[i] = "" THEN <<i>> \o MainIdxFrom(panels, i + 1)
    ELSE MainIdxFrom(panels, i + 1)

MainIdx(panels) == MainIdxFrom(panels, 1)

\* a membership test that the empty tag fails
InRBFLetters(tag) == tag \in {"r", "b", "f"}

\* s in 'rbf' for a tag s: the empty tag is a substring of every string
InRBF(tag) == tag \in {"", "r", "b", "f"}

\* the while loop that looks for the main space after main slot idx; the
\* result is the gap (1-based: gap g lies between slots g and g+1), or 0
\* where panels[idx + offset] would raise IndexError
RECURSIVE SpaceWalk(_, _, _)
SpaceWalk(panels, idx, offset) ==
    IF idx + offset > Len(panels) THEN 0
    ELSE IF InRBF(panels[idx + offset]) THEN idx + offset - 1
    ELSE SpaceWalk(panels, idx, offset + 1)

\* space_idxs: one gap for every main slot except the last
SpaceIdxs(panels) ==
    LET ratio_idxs == MainIdx(panels)
    IN  [j \in 1..(Len(ratio_idxs) - 1) |-> SpaceWalk(panels, ratio_idxs[j], 1)]

\* [ratio for idx, ratio in enumerate(ratios) if idx not in idxs_ratios]
RECURSIVE PanelRatiosFrom(_, _, _)
PanelRatiosFrom(panels, ratios, i) ==
    IF i > Len(ratios) THEN <<>>
    ELSE IF panels[i] # "" THEN <<ratios[i]>> \o PanelRatiosFrom(panels, ratios, i + 1)
    ELSE PanelRatiosFrom(panels, ratios, i + 1)

\* a rescaling that takes the panel slots along
RescaleEvery(panels, ratios, all) ==
    LET total == RSum([j \in 1..Len(ratios) |-> ratios[j]])
    IN  [i \in 1..Len(ratios) |-> RDiv(RMul(all, ratios[i]), total)]

\* axwidth_all*np.array(ratios_main)/sum(ratios_main) written back at the
\* main slots; the panel slots are unchanged
RescaleMain(panels, ratios, all) ==
    LET idxs == MainIdx(panels)
        total == RSum([j \in 1..Len(idxs) |-> ratios[idxs[j]]])
    IN  [i \in 1..Len(ratios) |->
            IF panels[i] = "" THEN RDiv(RMul(all, ratios[i]), total) ELSE ratios[i]]

\* the reference cell's share (rwratio, rhratio)
RefRatio(ratios_main, x1, x2) ==
    RDiv(RMul(I(Len(ratios_main)), RSum(PySlice(ratios_main, x1, x2 + 1))),
         RMul(I(x2 - x1 + 1), RSum(ratios_main)))

\* (n_main*(ax - rspace))/(d*rratio)
AxAll(nmain, ax, rspace, d, rratio) ==
    RDiv(RMul(I(nmain), RSub(ax, rspace)), RMul(I(d), rratio))

\* (ax_all*d*rratio)/n_main, the spaces inside the reference cell left out
AxFromAllPlain(all, d, rratio, nmain, rspace) ==
    RDiv(RMul(RMul(all, I(d)), rratio), I(nmain))

\* (ax_all*d*rratio)/n_main + rspace
AxFromAll(all, d, rratio, nmain, rspace) ==
    RAdd(RDiv(RMul(RMul(all, I(d)), rratio), I(nmain)), rspace)

\* the figure extent: ax_all + margins + sum(space) + sum(ratios_panels)
FigExtent(all, m1, m2, space, ratios_panels) ==
    RAdd(RAdd(RAdd(RAdd(all, m1), m2), RSum(space)), RSum(ratios_panels))

\* the main extent of a given figure extent
AllFromFig(fig, m1, m2, space, ratios_panels) ==
    RSub(RSub(RSub(RSub(fig, m1), m2), RSum(space)), RSum(ratios_panels))

LengthError(k) ==
    \/ Len(k.hratios) # k.nrows
    \/ Len(k.wratios) # k.ncols
    \/ Len(k.hspace) # k.nrows - 1
    \/ Len(k.wspace) # k.ncols - 1
    \/ Len(k.hpanels) # k.nrows
    \/ Len(k.wpanels) # k.ncols

\* aspect = aspect[0]/aspect[1] when iterable
AspectOf(k) == IF k.aspect.iterable THEN RDiv(k.aspect.v[1], k.aspect.v[2]) ELSE k.aspect.v[1]

\* ratios_main: the entries of ratios at the main slots
MainRatios(panels, ratios) ==
    LET idxs == MainIdx(panels)
    IN  [j \in 1..Len(idxs) |-> ratios[idxs[j]]]

\* space_main: the entries of space at the gaps the walk picked
MainSpace(panels, space) ==
    LET idxs == SpaceIdxs(panels)
    IN  [j \in 1..Len(idxs) |-> IF idxs[j] = 0 THEN None ELSE space[idxs[j]]]

\* the walk ran off the end of the tag array
WalkError(panels) ==
    LET idxs == SpaceIdxs(panels)
    IN  \E j \in 1..Len(idxs) : idxs[j] = 0

\* the main and the panel parts of the ratio and space arrays
MainParts(k) ==
    [walkError |-> WalkError(k.hpanels) \/ WalkError(k.wpanels),
     hratios_main |-> MainRatios(k.hpanels, k.hratios),
     wratios_main |-> MainRatios(k.wpanels, k.wratios),
     hratios_panels |-> PanelRatiosFrom(k.hpanels, k.hratios, 1),
     wratios_panels |-> PanelRatiosFrom(k.wpanels, k.wratios, 1),
     hspace_main |-> MainSpace(k.hpanels, k.hspace),
     wspace_main |-> MainSpace(k.wpanels, k.wspace),
     nrows_main |-> Len(MainIdx(k.hpanels)),
     ncols_main |-> Len(MainIdx(k.wpanels))]

\* the reference properties, from the main parts p
RefProps(k, p) ==
    [dx |-> k.xref[2] - k.xref[1] + 1,
     dy |-> k.yref[2] - k.yref[1] + 1,
     rwspace |-> RSum(PySlice(p.wspace_main, k.xref[1], k.xref[2])),
     rhspace |-> RSum(PySlice(p.hspace_main, k.yref[1], k.yref[2])),
     rwratio |-> RefRatio(p.wratios_main, k.xref[1], k.xref[2]),
     rhratio |-> RefRatio(p.hratios_main, k.yref[1], k.yref[2])]

\* the dimensions the caller fixed, with reference properties r: the branch
\* "width is None and height is None" reads them from the axes, the other
\* branch from the figure; None marks a name the code has not bound yet
GivenDims(k, p, r) ==
    LET axwidth == IF IsNone(k.axwidth) /\ IsNone(k.axheight)
                   THEN I(DefaultAxWidth) ELSE k.axwidth
    IN  IF IsNone(k.width) /\ IsNone(k.height)
        THEN [auto_width |-> ~IsNone(k.axheight) /\ IsNone(axwidth),
              auto_height |-> ~IsNone(axwidth) /\ IsNone(k.axheight),
              axwidth |-> axwidth,
              axheight |-> k.axheight,
              axwidth_all |-> IF IsNone(axwidth) THEN None
                              ELSE AxAll(p.ncols_main, axwidth, r.rwspace, r.dx, r.rwratio),
              axheight_all |-> IF IsNone(k.axheight) THEN None
                               ELSE AxAll(p.nrows_main, k.axheight, r.rhspace, r.dy, r.rhratio)]
        ELSE [auto_width |-> IsNone(k.width) /\ ~IsNone(k.height),
              auto_height |-> IsNone(k.height) /\ ~IsNone(k.width),
              axwidth |-> IF IsNone(k.width) THEN k.axwidth
                          ELSE AxFromAll(AllFromFig(k.width, k.left, k.right, k.wspace, p.wratios_panels),
                                         r.dx, r.rwratio, p.ncols_main, r.rwspace),
              axheight |-> IF IsNone(k.height) THEN k.axheight
                           ELSE AxFromAll(AllFromFig(k.height, k.top, k.bottom, k.hspace, p.hratios_panels),
                                          r.dy, r.rhratio, p.nrows_main, r.rhspace),
              axwidth_all |-> IF IsNone(k.width) THEN None
                              ELSE AllFromFig(k.width, k.left, k.right, k.wspace, p.wratios_panels),
              axheight_all |-> IF IsNone(k.height) THEN None
                               ELSE AllFromFig(k.height, k.top, k.bottom, k.hspace, p.hratios_panels)]

\* AutoDims that derives the height from the aspect ratio whenever the
\* width is not the open dimension
AutoDimsAlways(k, p, r, g) ==
    IF g.auto_width
    THEN [g EXCEPT !.axwidth = RMul(g.axheight, AspectOf(k)),
                   !.axwidth_all = AxAll(p.ncols_main, RMul(g.axheight, AspectOf(k)),
                                         r.rwspace, r.dx, r.rwratio)]
    ELSE [g EXCEPT !.axheight = RDiv(g.axwidth, AspectOf(k)),
                   !.axheight_all = AxAll(p.nrows_main, RDiv(g.axwidth, AspectOf(k)),
                                          r.rhspace, r.dy, r.rhratio)]

\* AutoDims with the aspect ratio applied the wrong way round
AutoDimsTimes(k, p, r, g) ==
    IF g.auto_height
    THEN [g EXCEPT !.axheight = RMul(g.axwidth, AspectOf(k)),
                   !.axheight_all = AxAll(p.nrows_main, RMul(g.axwidth, AspectOf(k)),
                                          r.rhspace, r.dy, r.rhratio)]
    ELSE IF g.auto_width
    THEN [g EXCEPT !.axwidth = RDiv(g.axheight, AspectOf(k)),
                   !.axwidth_all = AxAll(p.ncols_main, RDiv(g.axheight, AspectOf(k)),
                                         r.rwspace, r.dx, r.rwratio)]
    ELSE g

\* "automatically figure dim that was not specified above": the dimension
\* left open follows from the other one and the aspect ratio
AutoDims(k, p, r, g) ==
    IF g.auto_height
    THEN [g EXCEPT !.axheight = RDiv(g.axwidth, AspectOf(k)),
                   !.axheight_all = AxAll(p.nrows_main, RDiv(g.axwidth, AspectOf(k)),
                                          r.rhspace, r.dy, r.rhratio)]
    ELSE IF g.auto_width
    THEN [g EXCEPT !.axwidth = RMul(g.axheight, AspectOf(k)),
                   !.axwidth_all = AxAll(p.ncols_main, RMul(g.axheight, AspectOf(k)),
                                         r.rwspace, r.dx, r.rwratio)]
    ELSE g

\* the figure and axes dimensions at the two "Not enough room" checks; a
\* figure extent that was not given is the main extent plus the margins,
\* the spaces and the panel slots
AllDims(k, p, r, a) ==
    [walkError |-> p.walkError,
     rwratio |-> r.rwratio, rhratio |-> r.rhratio,
     rwspace |-> r.rwspace, rhspace |-> r.rhspace,
     auto_width |-> a.auto_width, auto_height |-> a.auto_height,
     axwidth |-> a.axwidth, axheight |-> a.axheight,
     axwidth_all |-> a.axwidth_all, axheight_all |-> a.axheight_all,
     width |-> IF IsNone(k.width)
               THEN FigExtent(a.axwidth_all, k.left, k.right, k.wspace, p.wratios_panels)
               ELSE k.width,
     height |-> IF IsNone(k.height)
                THEN FigExtent(a.axheight_all, k.top, k.bottom, k.hspace, p.hratios_panels)
                ELSE k.height]

DimsFromRef(k, p, r) == AllDims(k, p, r, AutoDims(k, p, r, GivenDims(k, p, r)))

DimsFromParts(k, p) == DimsFromRef(k, p, RefProps(k, p))

\* The part of the solve up to the two "Not enough room" checks: the
\* reference properties and the figure and axes dimensions.
Dims(k) == DimsFromParts(k, MainParts(k))

\* The error raised for dimensions d, or "" when the solver returns
DimsError(d) ==
    IF d.walkError THEN "IndexError"
    ELSE IF REq(d.rwratio, Zero) \/ REq(d.rhratio, Zero) THEN "RuntimeError"
    ELSE IF RLt(d.axwidth_all, Zero) \/ RLt(d.axheight_all, Zero) THEN "ValueError"
    ELSE ""

\* what the solver returns for dimensions d that passed every check: the
\* main ratios rescaled to inches, the margins as figure fractions
Solved(k, d, wratios, hratios) ==
    [err |-> "",
     figsize |-> <<d.width, d.height>>,
     gridspec_kw |->
        [ncols |-> k.ncols, nrows |-> k.nrows,
         wspace |-> k.wspace, hspace |-> k.hspace,
         width_ratios |-> wratios, height_ratios |-> hratios,
         left |-> RDiv(k.left, d.width),
         bottom |-> RDiv(k.bottom, d.height),
         right |-> RSub(One, RDiv(k.right, d.width)),
         top |-> RSub(One, RDiv(k.top, d.height))],
     kwargs |-> [k EXCEPT !.wratios = wratios, !.hratios = hratios]]

GeometryOf(k, d) ==
    IF DimsError(d) # ""
    THEN [err |-> DimsError(d), kwargs |-> k]
    ELSE Solved(k, d, RescaleMain(k.wpanels, k.wratios, d.axwidth_all),
                      RescaleMain(k.hpanels, k.hratios, d.axheight_all))

\* _subplots_geometry(**k): err is the exception raised ("" for none),
\* figsize and gridspec_kw are the values returned, kwargs is k after the
\* call (wratios and hratios are lists the solver rewrites in place, once it
\* has passed every check)
SubplotsGeometry(k) ==
    IF LengthError(k) THEN [err |-> "ValueError", kwargs |-> k]
    ELSE GeometryOf(k, Dims(k))

\* ------------------------------------------------------------------------
\* FlexibleGridSpec and FlexibleSubplotSpec
\* ------------------------------------------------------------------------
\* np.repeat of a length-1 array
Repeat(s, n) == IF Len(s) = 1 THEN [i \in 1..n |-> s[1]] ELSE s

\* ratios at the even (0-based) slots, spaces at the odd ones
Interleave(ratios, space, n) ==
    [i \in 1..n |-> IF i % 2 = 1 THEN ratios[(i + 1) \div 2] ELSE space[i \div 2]]

\* FlexibleGridSpec._spaces_as_ratios for a gridspec with the given active
\* geometry and the keyword args g
SpacesAsRatios(nrows_active, ncols_active, g) ==
    LET wspace == Repeat(g.wspace, ncols_active - 1)
        hspace == Repeat(g.hspace, nrows_active - 1)
        wratios == Repeat(g.width_ratios, ncols_active)
        hratios == Repeat(g.height_ratios, nrows_active)
        bad == \/ Len(hratios) # nrows_active
               \/ Len(wratios) # ncols_active
               \/ Len(wspace) # ncols_active - 1
               \/ Len(hspace) # nrows_active - 1
    IN  IF bad THEN [err |-> "ValueError"]
        ELSE [err |-> "",
              wratios_final |-> Interleave(wratios, wspace, 2 * ncols_active - 1),
              hratios_final |-> Interleave(hratios, hspace, 2 * nrows_active - 1)]

\* FlexibleGridSpec with no physical slots for the gaps
FlexibleGridSpecDense(id, g) ==
    LET r == SpacesAsRatios(g.nrows, g.ncols, g)
    IN  [id |-> id,
         nrows |-> g.nrows, ncols |-> g.ncols,
         nrows_active |-> g.nrows, ncols_active |-> g.ncols,
         width_ratios |-> r.wratios_final, height_ratios |-> r.hratios_final,
         left |-> g.left, bottom |-> g.bottom, right |-> g.right, top |-> g.top]

\* FlexibleGridSpec(figure, **g): a new gridspec object, numbered id
FlexibleGridSpec(id, g) ==
    LET r == SpacesAsRatios(g.nrows, g.ncols, g)
    IN  [id |-> id,
         nrows |-> g.nrows * 2 - 1, ncols |-> g.ncols * 2 - 1,
         nrows_active |-> g.nrows, ncols_active |-> g.ncols,
         width_ratios |-> r.wratios_final, height_ratios |-> r.hratios_final,
         left |-> g.left, bottom |-> g.bottom, right |-> g.right, top |-> g.top]

\* GridUpdate that hands back another gridspec object
GridUpdateRenewed(gs, g) ==
    LET r == SpacesAsRatios(gs.nrows_active, gs.ncols_active, g)
    IN  [gs EXCEPT !.id = @ + 1,
                   !.width_ratios = r.wratios_final, !.height_ratios = r.hratios_final,
                   !.left = g.left, !.bottom = g.bottom, !.right = g.right, !.top = g.top]

\* FlexibleGridSpec.update(**g) on gridspec gs; the geometry is kept
GridUpdate(gs, g) ==
    LET r == SpacesAsRatios(gs.nrows_active, gs.ncols_active, g)
    IN  [gs EXCEPT !.width_ratios = r.wratios_final, !.height_ratios = r.hratios_final,
                   !.left = g.left, !.bottom = g.bottom, !.right = g.right, !.top = g.top]

\* an optional integer: <<>> is None, <<n>> is n
NoInt == <<>>

IntKey(n) == [slice |-> FALSE, start |-> <<n>>, stop |-> NoInt, step |-> NoInt]

SliceKey(start, stop, step) == [slice |-> TRUE, start |-> start, stop |-> stop, step |-> step]

\* slice(a, b): both bounds given, no step
Slice(a, b) == SliceKey(<<a>>, <<b>>, NoInt)

Min(a, b) == IF a < b THEN a ELSE b

Max(a, b) == IF a > b THEN a ELSE b

\* slice.indices(size): <<start, stop>> (the step is dropped by the caller)
SliceIndices(key, size) ==
    LET step == IF key.step = NoInt THEN 1 ELSE key.step[1]
        lower == IF step < 0 THEN -1 ELSE 0
        upper == IF step < 0 THEN size - 1 ELSE size
        Adj(v, dflt) == IF v = NoInt THEN dflt
                        ELSE IF v[1] < 0 THEN Max(v[1] + size, lower)
                        ELSE Min(v[1], upper)
    IN  <<Adj(key.start, IF step < 0 THEN upper ELSE lower),
          Adj(key.stop, IF step < 0 THEN lower ELSE upper)>>

\* Normalize that takes an integer one past the end
NormalizeUpTo(key, size) ==
    IF key.slice
    THEN LET se == SliceIndices(key, size)
         IN  IF se[2] > se[1] THEN <<se[1], se[2] - 1>> ELSE <<>>
    ELSE LET k == IF key.start[1] < 0 THEN key.start[1] + size ELSE key.start[1]
         IN  IF 0 <= k /\ k <= size THEN <<k, k>> ELSE <<>>

\* Normalize that keeps the stop of a slice as it is (half-open)
NormalizeHalfOpen(key, size) ==
    IF key.slice
    THEN LET se == SliceIndices(key, size)
         IN  IF se[2] > se[1] THEN <<se[1], se[2]>> ELSE <<>>
    ELSE LET k == IF key.start[1] < 0 THEN key.start[1] + size ELSE key.start[1]
         IN  IF 0 <= k /\ k < size THEN <<k, k>> ELSE <<>>

\* FlexibleGridSpec._normalize: <<first, last>> inclusive, or <<>> where it
\* raises IndexError
Normalize(key, size) ==
    IF key.slice
    THEN LET se == SliceIndices(key, size)
         IN  IF se[2] > se[1] THEN <<se[1], se[2] - 1>> ELSE <<>>
    ELSE LET k == IF key.start[1] < 0 THEN key.start[1] + size ELSE key.start[1]
         IN  IF 0 <= k /\ k < size THEN <<k, k>> ELSE <<>>

\* FlexibleGridSpec._positem
Positem(size) == IF size < 0 THEN 2 * (size + 1) - 1 ELSE size * 2

\* FlexibleGridSpec.__getitem__ with a (rows, columns) key: the subplotspec
\* of gridspec gs, with the geometry of the gridspec it belongs to
GetItem2(gs, k1, k2) ==
    LET n1 == Normalize(k1, gs.nrows_active)
        n2 == Normalize(k2, gs.ncols_active)
    IN  IF n1 = <<>> \/ n2 = <<>> THEN [err |-> "IndexError"]
        ELSE [err |-> "", gid |-> gs.id, nrows |-> gs.nrows, ncols |-> gs.ncols,
              \* np.ravel_multi_index((num1, num2), (nrows, ncols))
              num1 |-> Positem(n1[1] * gs.ncols + n2[1]),
              num2 |-> Positem(n1[2] * gs.ncols + n2[2])]

\* FlexibleGridSpec.__getitem__ with a key that is not a tuple
GetItem1(gs, key) ==
    LET n == Normalize(key, gs.nrows_active * gs.ncols_active)
    IN  IF n = <<>> THEN [err |-> "IndexError"]
        ELSE [err |-> "", gid |-> gs.id, nrows |-> gs.nrows, ncols |-> gs.ncols,
              num1 |-> Positem(n[1]), num2 |-> Positem(n[2])]

\* FlexibleSubplotSpec.get_active_rows_columns:
\* <<nrows, ncols, row1, row2, col1, col2>>
GetActiveRowsColumns(ss) ==
    <<ss.nrows \div 2, ss.ncols \div 2,
      (ss.num1 \div ss.ncols) \div 2, (ss.num2 \div ss.ncols) \div 2,
      (ss.num1 % ss.ncols) \div 2, (ss.num2 % ss.ncols) \div 2>>

\* FlexibleSubplotSpec.get_active_geometry: <<nrows, ncols, num1, num2>>
SpecActiveGeometry(ss) ==
    LET a == GetActiveRowsColumns(ss)
    IN  <<a[1], a[2], a[3] * a[2] + a[5], a[4] * a[2] + a[6]>>

\* FlexibleGridSpec.get_active_geometry
GridActiveGeometry(gs) == <<gs.nrows_active, gs.ncols_active>>

\* SubplotSpec.get_rows_columns of matplotlib: the physical rows and columns
PhysRowsColumns(ss) ==
    <<ss.num1 \div ss.ncols, ss.num2 \div ss.ncols, ss.num1 % ss.ncols, ss.num2 % ss.ncols>>

\* ------------------------------------------------------------------------
\* Python lists
\* ------------------------------------------------------------------------
\* list.insert that always appends
PyInsertLast(s, i, x) == s \o <<x>>

\* list.insert(i, x) for a 0-based i: a negative i counts from the end, and
\* an index outside the list is clamped
PyInsert(s, i, x) ==
    LET j0 == IF i < 0 THEN i + Len(s) ELSE i
        j == IF j0 < 0 THEN 0 ELSE IF j0 > Len(s) THEN Len(s) ELSE j0
    IN  SubSeq(s, 1, j) \o <<x>> \o SubSeq(s, j + 1, Len(s))

\* whether s[i] raises IndexError
PyBad(s, i) == i >= Len(s) \/ i < -Len(s)

\* the 1-based position s[i] reads or writes, for an i that does not raise
PyPos(s, i) == IF i < 0 THEN i + Len(s) + 1 ELSE i + 1

\* ------------------------------------------------------------------------
\* Configuration (rc defaults, set outside this file) and _panels_kwargs
\* ------------------------------------------------------------------------
RcYlabSpace == Q(3, 5)

RcXlabSpace == Q(1, 2)

RcTitleSpace == Q(1, 5)

RcInnerSpace == Q(1, 10)

RcPanelSpace == Q(1, 10)

RcPanelWidth == Q(1, 2)

RcColorbarWidth == Q(1, 5)

RcPad == Q(1, 10)

RcAxPad == Q(1, 10)

RcPanelPad == Q(1, 20)

\* _panels_kwargs(side, width=width, space=space, filled=filled,
\* figure=figure) with share left at its default
PanelsKwargs(s, width, space, filled, figure) ==
    LET dflt == IF filled THEN RcColorbarWidth ELSE RcPanelWidth
        share == ~filled
        dspace == IF share /\ ~figure THEN RcPanelSpace
                  ELSE IF s = "b" THEN RcXlabSpace
                  ELSE IF s = "l" THEN RcYlabSpace
                  ELSE IF figure THEN RcInnerSpace
                  ELSE RcPanelSpace
    IN  [share |-> share, width |-> NotNone(width, dflt),
         space |-> NotNone(space, dspace), space_orig |-> space]

\* ------------------------------------------------------------------------
\* Figure state
\* ------------------------------------------------------------------------
VARIABLES
    phase,    \* "new" before subplots() is called, then "ready"; "failed" once a call raised;
              \* "solver" and "index" where the solver or the indexing is run alone
    err,      \* the exception that ended the last call, "" for none
    req,      \* the arguments of subplots() (of the last solver call, for the solver alone)
    kw,       \* Figure._subplots_kw
    orig,     \* Figure._subplots_orig_kw
    figsize,  \* the figure size in inches
    grid,     \* Figure._gridspec_main
    axs,      \* the axes of the figure, in creation order
    nested,   \* the GridSpecFromSubplotSpec objects that hold child axes
    farray,   \* Figure._larray, _rarray, _barray, _tarray
    passes,   \* the number of tight-layout passes (of solver calls, for the solver alone)
    last      \* the call made last and what it decided

vars == <<phase, err, req, kw, orig, figsize, grid, axs, nested, farray, passes, last>>

\* the mutable state of the figure as one value
St == [kw |-> kw, orig |-> orig, figsize |-> figsize, grid |-> grid,
       axs |-> axs, nested |-> nested, farray |-> farray]

RECURSIVE Ascending(_)
Ascending(S) ==
    IF S = {} THEN <<>>
    ELSE LET m == CHOOSE x \in S : \A y \in S : x <= y
         IN  <<m>> \o Ascending(S \ {m})

RECURSIVE Flatten(_)
Flatten(ss) == IF ss = <<>> THEN <<>> ELSE ss[1] \o Flatten(Tail(ss))

Sides == <<"l", "r", "b", "t">>

\* the keys of SIDE_TRANSLATE
SideTranslate == {"l", "r", "b", "t"}

\* Figure._iter_axes: the visible main axes and figure panels, then the
\* visible axes panels of each of them
IterAxes(a) ==
    LET mains == Ascending({i \in 1..Len(a) : a[i].kind = "main" /\ a[i].visible})
        figp(s) == Ascending({i \in 1..Len(a) : a[i].kind = "figpanel" /\ a[i].side = s /\ a[i].visible})
        base == mains \o figp("l") \o figp("r") \o figp("b") \o figp("t")
        vis(q) == SelectSeq(q, LAMBDA i : a[i].visible)
        pan(i) == vis(a[i].panels.l) \o vis(a[i].panels.r) \o vis(a[i].panels.b) \o vis(a[i].panels.t)
    IN  base \o Flatten([j \in 1..Len(base) |-> pan(base[j])])

\* [iax for ax in self._iter_axes() for iax in (ax, *ax.child_axes)]: an axes
\* is <<"ax", i>>, a child axes held by nested gridspec g is <<"child", g>>
IterWithChildren(a) ==
    LET it == IterAxes(a)
    IN  Flatten([j \in 1..Len(it) |->
            <<<<"ax", it[j]>>>> \o [c \in 1..Len(a[it[j]].children) |-> <<"child", a[it[j]].children[c]>>]])

\* coords[i] += 1 where inserts[i] is not None and coords[i] >= inserts[i],
\* then gridspec[row1:row2+1, col1:col2+1] on the new gridspec
Shifted(c, idx) == IF c >= idx THEN c + 1 ELSE c

RemapSpec(gs, topmost, s, idx) ==
    LET c == GetActiveRowsColumns(topmost)
        lr == s \in {"l", "r"}
        row1 == IF lr THEN c[3] ELSE Shifted(c[3], idx)
        row2 == IF lr THEN c[4] ELSE Shifted(c[4], idx)
        col1 == IF lr THEN Shifted(c[5], idx) ELSE c[5]
        col2 == IF lr THEN Shifted(c[6], idx) ELSE c[6]
    IN  GetItem2(gs, Slice(row1, row2 + 1), Slice(col1, col2 + 1))

\* the loop that reassigns subplotspecs, over the items still to visit; the
\* result is the axes, the nested gridspecs and the exception that stopped it
RECURSIVE RemapLoop(_, _, _, _, _, _)
RemapLoop(items, a, nst, gs, s, idx) ==
    IF items = <<>> THEN [axs |-> a, nested |-> nst, err |-> ""]
    ELSE LET it == items[1]
         IN  IF it[1] = "ax"
             THEN LET new == RemapSpec(gs, a[it[2]].spec, s, idx)
                  IN  IF new.err # "" THEN [axs |-> a, nested |-> nst, err |-> new.err]
                      ELSE RemapLoop(Tail(items), [a EXCEPT ![it[2]].spec = new], nst, gs, s, idx)
             ELSE LET g == nst[it[2]]
                      \* subplotspec.get_topmost_subplotspec()
                      topmost == IF g.outer = 0 THEN g.spec ELSE nst[g.outer].spec
                      new == RemapSpec(gs, topmost, s, idx)
                  IN  IF new.err # "" THEN [axs |-> a, nested |-> nst, err |-> new.err]
                      \* topmost is igridspec._subplot_spec
                      ELSE IF g.outer = 0
                      THEN RemapLoop(Tail(items), a, [nst EXCEPT ![it[2]].spec = new], gs, s, idx)
                      ELSE [axs |-> a, nested |-> nst, err |-> "ValueError"]

\* ------------------------------------------------------------------------
\* Figure._insert_row_column
\* ------------------------------------------------------------------------
\* subplots_kw with the arrays of one direction replaced (columns for the
\* sides l and r, rows for b and t)
SetAxis(k, lr, n, panels, ratios, spaces) ==
    IF lr THEN [k EXCEPT !.ncols = n, !.wpanels = panels, !.wratios = ratios, !.wspace = spaces]
    ELSE [k EXCEPT !.nrows = n, !.hpanels = panels, !.hratios = ratios, !.hspace = spaces]

SetOrigSpace(o, lr, spaces_orig) ==
    IF lr THEN [o EXCEPT !.wspace = spaces_orig] ELSE [o EXCEPT !.hspace = spaces_orig]

\* a side check that lets one more letter through
InvalidSideLax(s) == s \notin {"l", "r", "b", "t", "x"}

\* s = side[0]; s not in 'lrbt'
InvalidSide(s) == s \notin {"l", "r", "b", "t"}

\* raise e before anything of the figure state st is touched
Refused(st, e) == [err |-> e, ins |-> [exists |-> FALSE, idx |-> 0], st |-> st]

\* The arrays after the "slot already exists" branch or the "make room"
\* branch, before the figure is updated.  idx is the slot asked for.
InsertArrays(st, s, idx, ratio, space, space_orig, figure) ==
    LET lr == s \in {"l", "r"}
        panels == IF lr THEN st.kw.wpanels ELSE st.kw.hpanels
        ratios == IF lr THEN st.kw.wratios ELSE st.kw.hratios
        spaces == IF lr THEN st.kw.wspace ELSE st.kw.hspace
        spaces_orig == IF lr THEN st.orig.wspace ELSE st.orig.hspace
        n == IF lr THEN st.kw.ncols ELSE st.kw.nrows
        idx_space == idx - (IF s \in {"b", "r"} THEN 1 ELSE 0)
        idx_offset == IF s \in {"t", "l"} THEN 1 ELSE 0
        entry == IF figure THEN "f" ELSE s
        edge == idx \in {-1, Len(panels)}
        exists == ~edge /\ ~PyBad(panels, idx) /\ panels[PyPos(panels, idx)] = entry
        g == PyPos(spaces, idx_space)
        pinned == IF IsNone(spaces_orig[g]) THEN space_orig ELSE spaces_orig[g]
    IN  IF ~edge /\ PyBad(panels, idx)
        THEN [err |-> "IndexError", exists |-> FALSE, idx |-> idx, kw |-> st.kw, orig |-> st.orig]
        ELSE IF exists
        THEN IF PyBad(spaces, idx_space)
             THEN [err |-> "IndexError", exists |-> TRUE, idx |-> idx, kw |-> st.kw, orig |-> st.orig]
             ELSE [err |-> "", exists |-> TRUE, idx |-> idx,
                   kw |-> SetAxis(st.kw, lr, n, panels, ratios,
                                  [spaces EXCEPT ![g] = NotNone(pinned, space)]),
                   orig |-> SetOrigSpace(st.orig, lr, [spaces_orig EXCEPT ![g] = pinned])]
        ELSE [err |-> "", exists |-> FALSE, idx |-> idx + idx_offset,
              kw |-> SetAxis(st.kw, lr, n + 1,
                             PyInsert(panels, idx + idx_offset, entry),
                             PyInsert(ratios, idx + idx_offset, ratio),
                             PyInsert(spaces, idx_space + idx_offset, space)),
              orig |-> SetOrigSpace(st.orig, lr,
                             PyInsert(spaces_orig, idx_space + idx_offset, space_orig))]

\* the end of _insert_row_column for the solver's answer geo: the gridspec
\* is updated where the slot existed; otherwise a new gridspec replaces it
\* and every axes gets a subplotspec of the new one
InsertFinish(st1, s, arr, geo) ==
    LET upd == SpacesAsRatios(st1.grid.nrows_active, st1.grid.ncols_active, geo.gridspec_kw)
        gs == FlexibleGridSpec(st1.grid.id + 1, geo.gridspec_kw)
        re == RemapLoop(IterWithChildren(st1.axs), st1.axs, st1.nested, gs, s, arr.idx)
    IN  IF geo.err # "" THEN [err |-> geo.err, exists |-> arr.exists, idx |-> arr.idx, st |-> st1]
        ELSE IF arr.exists
        THEN IF upd.err # ""
             THEN [err |-> upd.err, exists |-> TRUE, idx |-> arr.idx,
                   st |-> [st1 EXCEPT !.kw = geo.kwargs, !.figsize = geo.figsize]]
             ELSE [err |-> "", exists |-> TRUE, idx |-> arr.idx,
                   st |-> [st1 EXCEPT !.kw = geo.kwargs, !.figsize = geo.figsize,
                                      !.grid = GridUpdate(st1.grid, geo.gridspec_kw)]]
        ELSE [err |-> re.err, exists |-> FALSE, idx |-> arr.idx,
              st |-> [st1 EXCEPT !.kw = geo.kwargs, !.figsize = geo.figsize, !.grid = gs,
                                 !.axs = re.axs, !.nested = re.nested]]

\* the solve of _insert_row_column, on the arrays arr
InsertSolve(st, s, arr) ==
    IF arr.err # "" THEN [err |-> arr.err, exists |-> arr.exists, idx |-> arr.idx, st |-> st]
    ELSE InsertFinish([st EXCEPT !.kw = arr.kw, !.orig = arr.orig], s, arr,
                      SubplotsGeometry(arr.kw))

\* _insert_row_column(side, idx, ratio, space, space_orig, figure): the
\* figure state after the call, the exception that ended it, whether the
\* slot existed, and the slot of the panel (idx after the offset)
InsertRowColumn(st, s, idx, ratio, space, space_orig, figure) ==
    IF InvalidSide(s) THEN [err |-> "ValueError", exists |-> FALSE, idx |-> idx, st |-> st]
    ELSE InsertSolve(st, s, InsertArrays(st, s, idx, ratio, space, space_orig, figure))

\* ------------------------------------------------------------------------
\* subplots()
\* ------------------------------------------------------------------------
NRowsOf(array) == Len(array)

NColsOf(array) == Len(array[1])

\* nums = np.unique(array[array != 0])
NumsOf(array) ==
    {array[r][c] : r \in 1..NRowsOf(array), c \in 1..NColsOf(array)} \ {0}

SetMin(S) == CHOOSE x \in S : \A y \in S : x <= y

SetMax(S) == CHOOSE x \in S : \A y \in S : x >= y

\* xrange[num-1] and yrange[num-1]: the 0-based first and last column and
\* row of the cells that hold num
XRangeOf(array, num) ==
    LET cs == {c \in 1..NColsOf(array) : \E r \in 1..NRowsOf(array) : array[r][c] = num}
    IN  <<SetMin(cs) - 1, SetMax(cs) - 1>>

YRangeOf(array, num) ==
    LET rs == {r \in 1..NRowsOf(array) : \E c \in 1..NColsOf(array) : array[r][c] = num}
    IN  <<SetMin(rs) - 1, SetMax(rs) - 1>>

\* the keyword args subplots() hands to _subplots_geometry: spaces and
\* ratios expanded to lists, the defaults filled in (share level 3)
InitialKw(r) ==
    LET nrows == NRowsOf(r.array)
        ncols == NColsOf(r.array)
    IN  [nrows |-> nrows, ncols |-> ncols,
         aspect |-> r.aspect,
         xref |-> XRangeOf(r.array, r.ref), yref |-> YRangeOf(r.array, r.ref),
         left |-> NotNone(r.left, RcYlabSpace),
         right |-> NotNone(r.right, RcInnerSpace),
         bottom |-> NotNone(r.bottom, RcXlabSpace),
         top |-> NotNone(r.top, RcTitleSpace),
         width |-> r.width, height |-> r.height,
         axwidth |-> r.axwidth, axheight |-> r.axheight,
         wratios |-> Repeat(r.wratios, ncols), hratios |-> Repeat(r.hratios, nrows),
         wspace |-> [i \in 1..(ncols - 1) |-> NotNone(r.wspace, RcInnerSpace)],
         hspace |-> [i \in 1..(nrows - 1) |-> NotNone(r.hspace, RAdd(RcTitleSpace, RcInnerSpace))],
         wpanels |-> [i \in 1..ncols |-> ""], hpanels |-> [i \in 1..nrows |-> ""]]

\* subplots_orig_kw: the user's own values, None where there is none
InitialOrig(r) ==
    [left |-> r.left, right |-> r.right, top |-> r.top, bottom |-> r.bottom,
     wspace |-> [i \in 1..(NColsOf(r.array) - 1) |-> r.wspace],
     hspace |-> [i \in 1..(NRowsOf(r.array) - 1) |-> r.hspace]]

NoPanels == [l |-> <<>>, r |-> <<>>, b |-> <<>>, t |-> <<>>]

\* the main axes drawn on gridspec gs: subplotspec = gridspec[y0:y1+1, x0:x1+1]
MainAxes(r, gs) ==
    [num \in 1..Cardinality(NumsOf(r.array)) |->
        [kind |-> "main", side |-> "", parent |-> 0, visible |-> TRUE,
         panels |-> NoPanels, children |-> <<>>,
         spec |-> GetItem2(gs,
                    Slice(YRangeOf(r.array, num)[1], YRangeOf(r.array, num)[2] + 1),
                    Slice(XRangeOf(r.array, num)[1], XRangeOf(r.array, num)[2] + 1))]]

\* the len(wratios) != ncols and len(hratios) != nrows checks of subplots()
RatioCountError(r) ==
    \/ Len(Repeat(r.wratios, NColsOf(r.array))) # NColsOf(r.array)
    \/ Len(Repeat(r.hratios, NRowsOf(r.array))) # NRowsOf(r.array)

\* the call made last: its name, side and axes, the slot it asked for and
\* the widths and spaces it passed on (kwp), whether the slot existed and
\* the slot the panel went to
NoLast == [op |-> "", s |-> "", ax |-> 0, asked |-> 0, kwp |-> <<>>, exists |-> FALSE, idx |-> 0]

\* the figure subplots() builds from the solver's answer geo: its
\* gridspec gs and its axes
Build(geo, gs) ==
    /\ phase' = "ready"
    /\ err' = ""
    /\ kw' = geo.kwargs
    /\ orig' = InitialOrig(req)
    /\ figsize' = geo.figsize
    /\ grid' = gs
    /\ axs' = MainAxes(req, gs)
    /\ nested' = <<>>
    /\ farray' = [l |-> [n |-> gs.nrows_active, rows |-> <<>>],
                  r |-> [n |-> gs.nrows_active, rows |-> <<>>],
                  b |-> [n |-> gs.ncols_active, rows |-> <<>>],
                  t |-> [n |-> gs.ncols_active, rows |-> <<>>]]

SubplotsWith(geo) ==
    IF RatioCountError(req) \/ geo.err # ""
    THEN /\ phase' = "failed"
         /\ err' = (IF RatioCountError(req) THEN "ValueError" ELSE geo.err)
         /\ UNCHANGED <<kw, orig, figsize, grid, axs, nested, farray>>
    ELSE Build(geo, FlexibleGridSpec(1, geo.gridspec_kw))

\* subplots(**req): solve, then build the figure, its gridspec and its axes
Subplots ==
    /\ phase = "new"
    /\ \E geo \in {SubplotsGeometry(InitialKw(req))} : SubplotsWith(geo)
    /\ last' = [NoLast EXCEPT !.op = "subplots"]
    /\ UNCHANGED <<req, passes>>

\* ------------------------------------------------------------------------
\* Figure._add_axes_panel and Figure._add_figure_panel
\* ------------------------------------------------------------------------
\* the figure state st becomes the state of the figure
Assign(st) ==
    /\ kw' = st.kw
    /\ orig' = st.orig
    /\ figsize' = st.figsize
    /\ grid' = st.grid
    /\ axs' = st.axs
    /\ nested' = st.nested
    /\ farray' = st.farray

\* the call returned (e = "") or raised e
Outcome(e) ==
    /\ err' = e
    /\ phase' = (IF e = "" THEN "ready" ELSE "failed")

PanelAxes(kind, s, parent, spec) ==
    [kind |-> kind, side |-> s, parent |-> parent, visible |-> TRUE,
     panels |-> NoPanels, children |-> <<>>, spec |-> spec]

\* the outcome r of a panel call becomes the state of the figure
Finish(r, op, s, ax, asked, kwp) ==
    /\ Assign(r.st)
    /\ Outcome(r.err)
    /\ last' = [op |-> op, s |-> s, ax |-> ax, asked |-> asked, kwp |-> kwp,
                exists |-> r.ins.exists, idx |-> r.ins.idx]
    /\ UNCHANGED <<req, passes>>

\* "draw and setup panel": the panel of axes j at slot iratio of the
\* gridspec that _insert_row_column returned (ins), c being the rows and
\* columns of axes j before the call
AxesPanelDraw(j, s, c, iratio, ins) ==
    LET \* gridspec is not gridspec_prev
        islot == IF ~ins.exists /\ s \in {"t", "l"} THEN iratio + 1 ELSE iratio
        spec == IF s \in {"l", "r"}
                THEN GetItem2(ins.st.grid, Slice(c[3], c[4] + 1), IntKey(islot))
                ELSE GetItem2(ins.st.grid, IntKey(islot), Slice(c[5], c[6] + 1))
    IN  IF ins.err # "" THEN [err |-> ins.err, ins |-> ins, st |-> ins.st]
        ELSE IF spec.err # "" THEN [err |-> spec.err, ins |-> ins, st |-> ins.st]
        ELSE [err |-> "", ins |-> ins,
              st |-> [ins.st EXCEPT
                        !.axs = Append([ins.st.axs EXCEPT ![j].panels[s] = Append(@, Len(ins.st.axs) + 1)],
                                       PanelAxes("panel", s, j, spec))]]

\* a slot search that always asks for the slot next to the axes
AxesPanelSlotNear(a, j, s) ==
    LET c == GetActiveRowsColumns(a[j].spec)
    IN  IF s = "l" THEN c[5] - 1
        ELSE IF s = "r" THEN c[6] + 1
        ELSE IF s = "t" THEN c[3] - 1
        ELSE c[4] + 1

\* the slot _add_axes_panel asks for: past the panels axes j already has
\* on side s
AxesPanelSlot(a, j, s) ==
    LET c == GetActiveRowsColumns(a[j].spec)
        offset == Len(a[j].panels[s]) + 1
    IN  IF s = "l" THEN c[5] - offset
        ELSE IF s = "r" THEN c[6] + offset
        ELSE IF s = "t" THEN c[3] - offset
        ELSE c[4] + offset

AxesPanelInsert(st, j, s, kwp) ==
    AxesPanelDraw(j, s, GetActiveRowsColumns(st.axs[j].spec), AxesPanelSlot(st.axs, j, s),
                  InsertRowColumn(st, s, AxesPanelSlot(st.axs, j, s),
                                  kwp.width, kwp.space, kwp.space_orig, FALSE))

\* ax = ax._panel_parent or ax
PanelParent(a, i) == IF a[i].parent # 0 THEN a[i].parent ELSE i

\* _add_axes_panel(ax, side, filled, width=width, space=space) for axes i
AxesPanelResult(st, i, s, filled, width, space) ==
    IF InvalidSide(s) THEN Refused(st, "ValueError")
    ELSE IF s \notin SideTranslate THEN Refused(st, "KeyError")
    ELSE AxesPanelInsert(st, PanelParent(st.axs, i), s, PanelsKwargs(s, width, space, filled, FALSE))

AddAxesPanel(i, s, filled, width, space) ==
    /\ phase = "ready"
    /\ i \in 1..Len(axs)
    /\ axs[i].kind # "figpanel"
    /\ \E r \in {AxesPanelResult(St, i, s, filled, width, space)} :
            IF s \notin SideTranslate THEN Finish(r, "axpanel", s, 0, 0, <<>>)
            ELSE Finish(r, "axpanel", s, PanelParent(axs, i), AxesPanelSlot(axs, PanelParent(axs, i), s),
                        PanelsKwargs(s, width, space, filled, FALSE))

\* a search that takes the first row of the boolean array, filled or not
FreeRowFirst(rows, start, stop) == IF rows = <<>> THEN 0 ELSE 1

\* the first row i of the boolean array with no slot filled in start..stop-1
\* (0-based), or 0 when every row has one
FreeRow(rows, start, stop) ==
    LET free == {i \in 1..Len(rows) : \A c \in (start + 1)..stop : ~rows[i][c]}
    IN  IF free = {} THEN 0 ELSE SetMin(free)

\* "see if there is room for panel in current figure panels": the slot to
\* ask for and the boolean array of side s afterwards
FigureArray(array, s, start, stop, nacross) ==
    LET npanels == Len(array.rows)
        found == FreeRow(array.rows, start, stop)
        iratio == IF found = 0 THEN (IF s \in {"l", "t"} THEN -1 ELSE nacross)
                  ELSE IF s \in {"l", "t"} THEN npanels - 1 - (found - 1)
                  ELSE nacross - (npanels - (found - 1))
        filled == [c \in 1..array.n |-> start < c /\ c <= stop]
        rows1 == IF found = 0 THEN array.rows
                 ELSE [array.rows EXCEPT ![found] = [c \in 1..array.n |-> @[c] \/ filled[c]]]
    IN  [iratio |-> iratio,
         rows |-> IF iratio \in {-1, nacross} THEN Append(rows1, filled) ELSE rows1]

\* "draw and setup panel": the figure panel at slot iratio of the gridspec
\* that _insert_row_column returned (ins), along the main slots idxs
FigurePanelDraw(s, span, idxs, iratio, ins) ==
    LET along == Slice(idxs[span[1]] - 1, idxs[span[2]] - 1 + 1)
        spec == IF s \in {"l", "r"} THEN GetItem2(ins.st.grid, along, IntKey(Max(iratio, 0)))
                ELSE GetItem2(ins.st.grid, IntKey(Max(iratio, 0)), along)
    IN  IF ins.err # "" THEN [err |-> ins.err, ins |-> ins, st |-> ins.st]
        ELSE IF spec.err # "" THEN [err |-> spec.err, ins |-> ins, st |-> ins.st]
        ELSE [err |-> "", ins |-> ins,
              st |-> [ins.st EXCEPT !.axs = Append(@, PanelAxes("figpanel", s, 0, spec))]]

\* "get gridspec and subplotspec indices", then the insertion, from the
\* figure state st1 with its boolean array updated
FigurePanelInsert(st1, s, span, kwp, idxs, iratio) ==
    IF Len(idxs) # st1.farray[s].n
    THEN [err |-> "RuntimeError", ins |-> [exists |-> FALSE, idx |-> 0], st |-> st1]
    ELSE FigurePanelDraw(s, span, idxs, iratio,
                         InsertRowColumn(st1, s, iratio, kwp.width, kwp.space, kwp.space_orig, TRUE))

FigurePanelAt(st, s, span, kwp, fa) ==
    FigurePanelInsert([st EXCEPT !.farray[s].rows = fa.rows], s, span, kwp,
                      MainIdx(IF s \in {"l", "r"} THEN st.kw.hpanels ELSE st.kw.wpanels),
                      fa.iratio)

\* _add_figure_panel(side, span=span, width=width, space=space)
FigurePanelResult(st, s, span, width, space) ==
    IF InvalidSide(s) THEN Refused(st, "ValueError")
    ELSE IF s \notin SideTranslate THEN Refused(st, "KeyError")
    ELSE IF span[1] < 1 \/ span[2] > st.farray[s].n
    THEN [err |-> "ValueError", ins |-> [exists |-> FALSE, idx |-> 0], st |-> st]
    ELSE FigurePanelAt(st, s, span, PanelsKwargs(s, width, space, TRUE, TRUE),
                       FigureArray(st.farray[s], s, span[1] - 1, span[2],
                                   IF s \in {"l", "r"} THEN st.kw.ncols ELSE st.kw.nrows))

\* the slot (iratio) that _add_figure_panel asks _insert_row_column for; 0
\* where the span is refused before a slot is looked for
FigurePanelSlot(st, s, span) ==
    IF span[1] < 1 \/ span[2] > st.farray[s].n THEN 0
    ELSE FigureArray(st.farray[s], s, span[1] - 1, span[2],
                     IF s \in {"l", "r"} THEN st.kw.ncols ELSE st.kw.nrows).iratio

AddFigurePanel(s, span, width, space) ==
    /\ phase = "ready"
    /\ \E r \in {FigurePanelResult(St, s, span, width, space)} :
            IF s \notin SideTranslate THEN Finish(r, "figpanel", s, 0, 0, <<>>)
            ELSE Finish(r, "figpanel", s, 0, FigurePanelSlot(St, s, span),
                        PanelsKwargs(s, width, space, TRUE, TRUE))


\* ------------------------------------------------------------------------
\* Figure._adjust_tight_layout
\* ------------------------------------------------------------------------
\* max(a, b) and min(a, b) of Python: the first argument wins a tie and
\* every comparison with NaN
PyMax(a, b) == IF RLt(a, b) THEN b ELSE a

PyMin(a, b) == IF RLt(b, a) THEN b ELSE a

RECURSIVE MinOf(_)
MinOf(s) == IF Len(s) = 1 THEN s[1] ELSE PyMin(s[1], MinOf(Tail(s)))

\* ax._range_gridspec(x): the first and last active column (x = "x") or row
\* (x = "y") of the subplotspec of axes a
RangeGridspec(a, x) ==
    LET c == GetActiveRowsColumns(a.spec)
    IN  IF x = "x" THEN <<c[5], c[6]>> ELSE <<c[3], c[4]>>

\* where slot k (0-based) starts and ends, measured from the first slot
SlotStart(ratios, spaces, k) ==
    RAdd(RSum(SubSeq(ratios, 1, k)), RSum(SubSeq(spaces, 1, k)))

SlotEnd(ratios, spaces, k) == RAdd(SlotStart(ratios, spaces, k), ratios[k + 1])

\* ax._range_tightbbox(x): what the backend measures for axes a, whose
\* content reaches e beyond its cell on every side; x runs from the left
\* edge of the figure and y from its bottom edge
RangeTightbbox(st, a, e, x) ==
    LET r == RangeGridspec(a, x)
    IN  IF x = "x"
        THEN <<RSub(RAdd(st.kw.left, SlotStart(st.kw.wratios, st.kw.wspace, r[1])), e),
               RAdd(RAdd(st.kw.left, SlotEnd(st.kw.wratios, st.kw.wspace, r[2])), e)>>
        ELSE <<RSub(RSub(RSub(st.figsize[2], st.kw.top), SlotEnd(st.kw.hratios, st.kw.hspace, r[2])), e),
               RAdd(RSub(RSub(st.figsize[2], st.kw.top), SlotStart(st.kw.hratios, st.kw.hspace, r[1])), e)>>

RECURSIVE MaxOf(_)
MaxOf(s) == IF Len(s) = 1 THEN s[1] ELSE PyMax(s[1], MaxOf(Tail(s)))

\* self.get_tightbbox(renderer): the union of the measured boxes of the
\* axes it (a sequence of indices into st.axs), as <<xmin, xmax, ymin, ymax>>
FigureTightbbox(st, it, ext) ==
    LET box(k, x) == RangeTightbbox(st, st.axs[it[k]], ext[it[k]], x)
    IN  <<MinOf([k \in 1..Len(it) |-> box(k, "x")[1]]),
          MaxOf([k \in 1..Len(it) |-> box(k, "x")[2]]),
          MinOf([k \in 1..Len(it) |-> box(k, "y")[1]]),
          MaxOf([k \in 1..Len(it) |-> box(k, "y")[2]])>>

\* GapPad with the one pad for every gap
GapPadPlain(panels, i) == RcAxPad

\* the pad of gap i (0-based) of a tag array: axpad, or panelpad for a
\* panel stack space or an axes panel space
GapPad(panels, i) ==
    LET p == panels[i + 1]
        q == panels[i + 2]
    IN  IF \/ p \in {"l", "t"} /\ q \in {"l", "t", ""}
           \/ p \in {"", "r", "b"} /\ q \in {"r", "b"}
           \/ p = "f" /\ q = "f"
        THEN RcPanelPad ELSE RcAxPad

\* the loop over j in range(nacross) that collects the groups of axes (of
\* the sequence it) that abut gap i along direction x, as pairs of sets
RECURSIVE GroupLoop(_, _, _, _, _, _, _)
GroupLoop(a, it, x, i, j, nacross, groups) ==
    IF j >= nacross THEN groups
    ELSE LET y == IF x = "x" THEN "y" ELSE "x"
             filt == {k \in 1..Len(it) : /\ RangeGridspec(a[it[k]], y)[1] <= j
                                         /\ j <= RangeGridspec(a[it[k]], y)[2]}
             idx1 == {k \in filt : RangeGridspec(a[it[k]], x)[2] = i}
             idx2 == {k \in filt : RangeGridspec(a[it[k]], x)[1] = i + 1}
             first1 == it[SetMin(idx1)]
             first2 == it[SetMin(idx2)]
             ax1 == IF x = "x" THEN first1 ELSE first2
             ax2 == IF x = "x" THEN first2 ELSE first1
             hit == {g \in 1..Len(groups) : ax1 \in groups[g][1] \/ ax2 \in groups[g][2]}
             merged == IF hit = {} THEN Append(groups, <<{ax1}, {ax2}>>)
                       ELSE [groups EXCEPT ![SetMin(hit)] = <<@[1] \cup {ax1}, @[2] \cup {ax2}>>]
         IN  IF \/ Cardinality(filt) < 2
                \/ Cardinality(idx1) > 1 \/ Cardinality(idx2) > 2
                \/ idx1 = {} \/ idx2 = {}
             THEN GroupLoop(a, it, x, i, j + 1, nacross, groups)
             ELSE GroupLoop(a, it, x, i, j + 1, nacross, merged)

\* Separation between the outermost instead of the innermost edges
SeparationWide(st, ext, x, firsts, seconds) ==
    RSub(MaxOf([k \in 1..Len(seconds) |-> RangeTightbbox(st, st.axs[seconds[k]], ext[seconds[k]], x)[1]]),
         MinOf([k \in 1..Len(firsts) |-> RangeTightbbox(st, st.axs[firsts[k]], ext[firsts[k]], x)[2]]))

\* the measured separation of one group: the least edge of its second
\* members minus the greatest edge of its first members
Separation(st, ext, x, firsts, seconds) ==
    RSub(MinOf([k \in 1..Len(seconds) |-> RangeTightbbox(st, st.axs[seconds[k]], ext[seconds[k]], x)[1]]),
         MaxOf([k \in 1..Len(firsts) |-> RangeTightbbox(st, st.axs[firsts[k]], ext[firsts[k]], x)[2]]))

\* jspaces: the measured separation of every one of the groups of a gap
GapSeparations(st, ext, x, groups) ==
    [g \in 1..Len(groups) |-> Separation(st, ext, x, Ascending(groups[g][1]), Ascending(groups[g][2]))]

\* GapSpace that lets the measured value win over the pinned one
GapSpaceMeasured(space, space_orig, pad, jspaces) ==
    IF jspaces = <<>> THEN space
    ELSE PyMax(Zero, RAdd(RSub(space, MinOf(jspaces)), pad))

\* the new value of a gap whose value is space and whose pinned value is
\* space_orig, from the separations jspaces measured across it
GapSpace(space, space_orig, pad, jspaces) ==
    IF jspaces = <<>> THEN space
    ELSE NotNone(space_orig, PyMax(Zero, RAdd(RSub(space, MinOf(jspaces)), pad)))

\* the new spaces of one direction (w with x = "x", h with x = "y")
TightSpaces(st, it, ext, x, nacross) ==
    LET panels == IF x = "x" THEN st.kw.wpanels ELSE st.kw.hpanels
        ispace == IF x = "x" THEN st.kw.wspace ELSE st.kw.hspace
        ispace_orig == IF x = "x" THEN st.orig.wspace ELSE st.orig.hspace
    IN  [i \in 1..Len(ispace) |->
            IF i <= Min(Len(ispace), Len(ispace_orig))
            THEN GapSpace(ispace[i], ispace_orig[i], GapPad(panels, i - 1),
                          GapSeparations(st, ext, x,
                              GroupLoop(st.axs, it, x, i - 1, 0, nacross, <<>>)))
            ELSE ispace[i]]

\* the new margins, from the tight bounding box bbox of the figure
TightMargins(st, bbox) ==
    [st.kw EXCEPT
        !.left = NotNone(st.orig.left, RAdd(RSub(@, bbox[1]), RcPad)),
        !.right = NotNone(st.orig.right, RAdd(RSub(@, RSub(st.figsize[1], bbox[2])), RcPad)),
        !.top = NotNone(st.orig.top, RAdd(RSub(@, RSub(st.figsize[2], bbox[4])), RcPad)),
        !.bottom = NotNone(st.orig.bottom, RAdd(RSub(@, bbox[3]), RcPad))]

\* the end of _adjust_tight_layout for the solver's answer geo to the
\* keyword args k: the gridspec is updated and the figure resized
TightUpdate(st, k, geo) ==
    LET upd == SpacesAsRatios(st.grid.nrows_active, st.grid.ncols_active, geo.gridspec_kw)
    IN  IF geo.err # "" THEN [err |-> geo.err, st |-> [st EXCEPT !.kw = k]]
        ELSE IF upd.err # "" THEN [err |-> upd.err, st |-> [st EXCEPT !.kw = geo.kwargs]]
        ELSE [err |-> "",
              st |-> [st EXCEPT !.kw = geo.kwargs, !.figsize = geo.figsize,
                                !.grid = GridUpdate(st.grid, geo.gridspec_kw)]]

TightSolve(st, k) == TightUpdate(st, k, SubplotsGeometry(k))

\* the keyword args with the margins m and the spaces measured on the
\* axes it
TightKw(st, it, ext, m) ==
    [m EXCEPT !.wspace = TightSpaces(st, it, ext, "x", st.grid.nrows_active),
              !.hspace = TightSpaces(st, it, ext, "y", st.grid.ncols_active)]

\* _adjust_tight_layout(renderer), where the renderer measures the content
\* of axes i to reach ext[i] beyond its cell
TightLayoutResult(st, ext) ==
    IF IterAxes(st.axs) = <<>> THEN [err |-> "", st |-> st]
    ELSE TightSolve(st, TightKw(st, IterAxes(st.axs), ext,
                                TightMargins(st, FigureTightbbox(st, IterAxes(st.axs), ext))))

TightFinish(r) ==
    /\ Assign(r.st)
    /\ Outcome(r.err)

TightLayout(ext) ==
    /\ phase = "ready"
    /\ \E r \in {TightLayoutResult(St, ext)} : TightFinish(r)
    /\ passes' = passes + 1
    /\ last' = [op |-> "tight", s |-> "", ax |-> 0, asked |-> 0, kwp |-> <<>>,
                exists |-> FALSE, idx |-> 0, ext |-> ext]
    /\ UNCHANGED req


\* ------------------------------------------------------------------------
\* What the caller does to the axes: visibility and child axes
\* ------------------------------------------------------------------------
MaxHidden == 1

MaxChildren == 2

\* ax.set_visible(b)
SetVisible(i, b) ==
    /\ phase = "ready"
    /\ i \in 1..Len(axs)
    /\ axs[i].visible # b
    /\ b \/ Cardinality({j \in 1..Len(axs) : ~axs[j].visible}) < MaxHidden
    /\ axs' = [axs EXCEPT ![i].visible = b]
    /\ last' = [NoLast EXCEPT !.op = "visible", !.ax = i]
    /\ UNCHANGED <<phase, err, req, kw, orig, figsize, grid, nested, farray, passes>>

NChildren == Len(Flatten([i \in 1..Len(axs) |-> axs[i].children]))

\* A child axes is added to axes i, drawn on a GridSpecFromSubplotSpec:
\* g = 0 makes a new one on the subplotspec of axes i, g > 0 with deep makes
\* a new one inside nested gridspec g, and g > 0 without deep draws the child
\* on nested gridspec g itself.
AddChild(i, g, deep) ==
    /\ phase = "ready"
    /\ i \in 1..Len(axs)
    /\ NChildren < MaxChildren
    /\ g \in 0..Len(nested)
    /\ g = 0 => ~deep
    /\ g > 0 => g \in {axs[i].children[c] : c \in 1..Len(axs[i].children)}
    /\ g > 0 => nested[g].outer = 0
    /\ nested' = IF g = 0 THEN Append(nested, [spec |-> axs[i].spec, outer |-> 0])
                 ELSE IF deep THEN Append(nested, [spec |-> axs[i].spec, outer |-> g])
                 ELSE nested
    /\ axs' = [axs EXCEPT ![i].children = Append(@, IF g > 0 /\ ~deep THEN g ELSE Len(nested) + 1)]
    /\ last' = [NoLast EXCEPT !.op = "child", !.ax = i]
    /\ UNCHANGED <<phase, err, req, kw, orig, figsize, grid, farray, passes>>

\* ------------------------------------------------------------------------
\* The solver and the indexing run alone
\* ------------------------------------------------------------------------
MaxSolves == 2

SolveWith(geo) ==
    /\ err' = geo.err
    /\ phase' = (IF geo.err = "" THEN "solver" ELSE "failed")
    /\ kw' = geo.kwargs
    /\ figsize' = (IF geo.err = "" THEN geo.figsize ELSE figsize)
    /\ last' = [op |-> "solve", geo |-> geo]

\* figsize, gridspec_kw, kw = _subplots_geometry(**kw): the stored keyword
\* args are solved again, as every insertion and tight-layout pass does
Solve ==
    /\ phase = "solver"
    /\ passes < MaxSolves
    /\ \E geo \in {SubplotsGeometry(kw)} : SolveWith(geo)
    /\ req' = kw
    /\ passes' = passes + 1
    /\ UNCHANGED <<orig, grid, axs, nested, farray>>

\* gridspec[k1, k2]
Index2(k1, k2) ==
    /\ phase = "index"
    /\ last' = [op |-> "getitem2", k1 |-> k1, k2 |-> k2, spec |-> GetItem2(grid, k1, k2)]
    /\ UNCHANGED <<phase, err, req, kw, orig, figsize, grid, axs, nested, farray, passes>>

\* gridspec[key] for a key that is not a tuple
Index1(key) ==
    /\ phase = "index"
    /\ last' = [op |-> "getitem1", k1 |-> key, k2 |-> key, spec |-> GetItem1(grid, key)]
    /\ UNCHANGED <<phase, err, req, kw, orig, figsize, grid, axs, nested, farray, passes>>

\* ------------------------------------------------------------------------
\* The figures, solver inputs and grids of the model
\* ------------------------------------------------------------------------
\* the reference axes (number 1) spans two columns in the first array and
\* two rows in the second
Arrays ==
    { <<<<1, 1>>, <<2, 3>>>>,
      <<<<1, 2>>, <<1, 3>>>> }

Scalar(v) == [iterable |-> FALSE, v |-> <<v, One>>]

Pair(w, h) == [iterable |-> TRUE, v |-> <<w, h>>]

\* how the figure is sized: width, height, axwidth, axheight, then the
\* aspect, then the user's own margins and spaces (None, or one value for
\* all of them)
Layouts ==
    { <<None, None, None, None, Pair(I(3), I(2)), None>>,
      <<Q(3, 2), None, None, None, Scalar(One), None>>,
      <<None, I(4), None, None, Pair(I(3), I(2)), Q(1, 2)>>,
      <<I(5), I(4), None, None, Scalar(One), None>> }

Request(array, lay) ==
    [array |-> array, ref |-> 1, aspect |-> lay[5],
     width |-> lay[1], height |-> lay[2], axwidth |-> lay[3], axheight |-> lay[4],
     left |-> lay[6], right |-> lay[6], top |-> lay[6], bottom |-> lay[6],
     wspace |-> lay[6], hspace |-> lay[6],
     wratios |-> <<One>>, hratios |-> <<One>>]

Requests == {Request(array, lay) : array \in Arrays, lay \in Layouts}

PanelSpaces == {None, Q(3, 10)}

\* the width and the space a panel call is given: none (the defaults are
\* used), a space of its own or a width of its own
PanelGiven == {<<None, None>>, <<None, Q(3, 10)>>, <<Q(1, 4), None>>}

\* how far the backend finds the content of an axes to reach beyond its cell
Overhangs == {Q(1, 4)}

\* what the backend measures for n axes: no overhang, the same overhang for
\* all, or an overhang for one of them
Measures(n) ==
    {[i \in 1..n |-> Zero]}
    \cup {[i \in 1..n |-> e] : e \in Overhangs}
    \cup {[i \in 1..n |-> IF i = k THEN e ELSE Zero] : k \in 1..n, e \in Overhangs}

NPanels == Cardinality({i \in 1..Len(axs) : axs[i].kind # "main"})

\* the panels added and the tight-layout passes made so far
NOps == NPanels + passes

MaxOps == 2

MaxSpan == 2

Blank ==
    /\ err = ""
    /\ kw = <<>>
    /\ orig = <<>>
    /\ figsize = <<>>
    /\ grid = <<>>
    /\ axs = <<>>
    /\ nested = <<>>
    /\ farray = <<>>
    /\ passes = 0
    /\ last = NoLast

Init ==
    /\ phase = "new"
    /\ req \in Requests
    /\ Blank

AxesPanelStep ==
    \E i \in 1..Len(axs), s \in {"l", "r", "b", "t"}, given \in PanelGiven :
        AddAxesPanel(i, s, FALSE, given[1], given[2])

FigurePanelStep ==
    \E s \in {"l", "r", "b", "t"}, a \in 1..MaxSpan, b \in 1..MaxSpan, given \in PanelGiven :
        a <= b /\ AddFigurePanel(s, <<a, b>>, given[1], given[2])

TightStep == \E ext \in Measures(Len(axs)) : TightLayout(ext)

Next ==
    \/ Subplots
    \/ NOps < MaxOps /\ AxesPanelStep
    \/ NOps < MaxOps /\ FigurePanelStep
    \/ NOps < MaxOps /\ TightStep

Spec == Init /\ [][Next]_vars

\* A figure whose axes are hidden and given child axes before a panel is added
NestedRequests == {Request(<<<<1, 1>>, <<2, 3>>>>, <<None, None, None, None, Scalar(One), None>>)}

MaxNestedPanels == 1

InitNested ==
    /\ phase = "new"
    /\ req \in NestedRequests
    /\ Blank

NextNested ==
    \/ Subplots
    \/ NPanels < MaxNestedPanels /\ AxesPanelStep
    \/ NPanels < MaxNestedPanels /\ FigurePanelStep
    \/ \E i \in 1..Len(axs) : SetVisible(i, FALSE)
    \/ \E i \in 1..Len(axs), g \in 0..Len(nested), deep \in BOOLEAN : AddChild(i, g, deep)

SpecNested == InitNested /\ [][NextNested]_vars

\* The solver alone: the shapes (panel tags and reference range), the main
\* ratios, the sizes and the aspects it is given
SolveShapes ==
    { [wpanels |-> <<"">>, hpanels |-> <<"">>, xref |-> <<0, 0>>, yref |-> <<0, 0>>],
      [wpanels |-> <<"", "">>, hpanels |-> <<"">>, xref |-> <<1, 1>>, yref |-> <<0, 0>>],
      [wpanels |-> <<"", "">>, hpanels |-> <<"", "">>, xref |-> <<0, 0>>, yref |-> <<0, 0>>],
      [wpanels |-> <<"", "">>, hpanels |-> <<"", "">>, xref |-> <<0, 1>>, yref |-> <<0, 0>>],
      [wpanels |-> <<"", "r", "">>, hpanels |-> <<"", "">>, xref |-> <<0, 1>>, yref |-> <<1, 1>>],
      [wpanels |-> <<"l", "">>, hpanels |-> <<"", "b", "f">>, xref |-> <<0, 0>>, yref |-> <<0, 0>>] }

RatioPatterns == {"ones", "twos", "rising", "zerofirst"}

\* the ratio array of a tag array: the j-th main slot gets its share of the
\* pattern, a panel slot gets the panel width; "zerofirst" gives the first
\* of several main slots a ratio of zero (the ratios of a direction are
\* never all zero in what the caller passes)
RatiosOf(panels, pattern) ==
    LET nth(i) == Cardinality({m \in 1..i : panels[m] = ""})
    IN  [i \in 1..Len(panels) |->
            IF panels[i] # "" THEN RcPanelWidth
            ELSE IF pattern = "ones" THEN One
            ELSE IF pattern = "rising" THEN I(nth(i))
            ELSE IF pattern = "twos" THEN I(2)
            ELSE IF nth(i) = 1 /\ nth(Len(panels)) > 1 THEN Zero ELSE One]

\* width, height, axwidth, axheight
SolveSizes ==
    { <<None, None, None, None>>,
      <<None, None, I(2), None>>,
      <<None, None, I(3), None>>,
      <<None, None, None, I(2)>>,
      <<None, None, I(2), I(2)>>,
      <<I(1), None, None, None>>,
      <<I(5), None, None, None>>,
      <<None, I(4), None, None>>,
      <<I(5), I(4), None, None>> }

SolveAspects == {Scalar(One), Scalar(I(2)), Pair(I(3), I(2))}

SolveMargin == Q(1, 2)

SolveSpace == Q(1, 5)

SolveInput(shape, pattern, size, aspect) ==
    [nrows |-> Len(shape.hpanels), ncols |-> Len(shape.wpanels),
     aspect |-> aspect, xref |-> shape.xref, yref |-> shape.yref,
     left |-> SolveMargin, right |-> SolveMargin, bottom |-> SolveMargin, top |-> SolveMargin,
     width |-> size[1], height |-> size[2], axwidth |-> size[3], axheight |-> size[4],
     wratios |-> RatiosOf(shape.wpanels, pattern), hratios |-> RatiosOf(shape.hpanels, pattern),
     wspace |-> [i \in 1..(Len(shape.wpanels) - 1) |-> SolveSpace],
     hspace |-> [i \in 1..(Len(shape.hpanels) - 1) |-> SolveSpace],
     wpanels |-> shape.wpanels, hpanels |-> shape.hpanels]

SolveInputs ==
    {SolveInput(shape, pattern, size, aspect) :
        shape \in SolveShapes, pattern \in RatioPatterns, size \in SolveSizes, aspect \in SolveAspects}

InitSolve ==
    /\ phase = "solver"
    /\ err = ""
    /\ req = <<>>
    /\ kw \in SolveInputs
    /\ orig = <<>>
    /\ figsize = <<>>
    /\ grid = <<>>
    /\ axs = <<>>
    /\ nested = <<>>
    /\ farray = <<>>
    /\ passes = 0
    /\ last = NoLast

NextSolve == Solve

SpecSolve == InitSolve /\ [][NextSolve]_vars

\* The indexing alone: grids of up to MaxDim active rows and columns, integer
\* keys from -(MaxDim + 1) to MaxDim and slices with bounds up to MaxBound
MaxDim == 4

MaxBound == 3

Grids ==
    {FlexibleGridSpec(1, [nrows |-> R, ncols |-> C, wspace |-> <<One>>, hspace |-> <<One>>,
                          width_ratios |-> <<One>>, height_ratios |-> <<One>>,
                          left |-> None, bottom |-> None, right |-> None, top |-> None]) :
        R \in 1..MaxDim, C \in 1..MaxDim}

Bounds == {NoInt} \cup {<<v>> : v \in (-MaxBound)..MaxBound}

Keys ==
    {IntKey(n) : n \in (-(MaxDim + 1))..MaxDim}
    \cup {SliceKey(a, b, NoInt) : a \in Bounds, b \in Bounds}

InitIndex ==
    /\ phase = "index"
    /\ err = ""
    /\ req = <<>>
    /\ kw = <<>>
    /\ orig = <<>>
    /\ figsize = <<>>
    /\ grid \in Grids
    /\ axs = <<>>
    /\ nested = <<>>
    /\ farray = <<>>
    /\ passes = 0
    /\ last = NoLast

\* one lookup is made on each grid
NextIndex ==
    \/ last = NoLast /\ \E k1 \in Keys, k2 \in Keys : Index2(k1, k2)
    \/ last = NoLast /\ \E key \in Keys : Index1(key)

SpecIndex == InitIndex /\ [][NextIndex]_vars


\* The calls that are refused: the figure with panels asked for on sides of
\* any first letter, and the solver alone on arrays whose lengths may not
\* fit the row and column counts
SideLetters == {"l", "r", "b", "t", "x"}

AnySideAxesPanelStep ==
    \E i \in 1..Len(axs), s \in SideLetters, space \in PanelSpaces :
        AddAxesPanel(i, s, FALSE, None, space)

AnySideFigurePanelStep ==
    \E s \in SideLetters, a \in 1..MaxSpan, b \in 1..MaxSpan, space \in PanelSpaces :
        a <= b /\ AddFigurePanel(s, <<a, b>>, None, space)

ArrayNames == {"wratios", "hratios", "wspace", "hspace", "wpanels", "hpanels"}

\* array f of the solver input k with one entry more, or with its last
\* entry dropped
Lengthened(k, f) ==
    [k EXCEPT ![f] = Append(@, IF f \in {"wpanels", "hpanels"} THEN "" ELSE One)]

Shortened(k, f) == [k EXCEPT ![f] = SubSeq(@, 1, Len(@) - 1)]

ConfigSizes == {<<None, None, None, None>>, <<I(5), I(4), None, None>>}

FittingInputs ==
    {SolveInput(shape, "ones", size, Scalar(One)) : shape \in SolveShapes, size \in ConfigSizes}

ConfigInputs ==
    FittingInputs
    \cup {Lengthened(k, f) : k \in FittingInputs, f \in ArrayNames}
    \cup {Shortened(k, f) : k \in {j \in FittingInputs : j.nrows > 1 /\ j.ncols > 1}, f \in ArrayNames}

InitConfig ==
    \/ Init
    \/ /\ phase = "solver"
       /\ req = <<>>
       /\ kw \in ConfigInputs
       /\ orig = <<>>
       /\ figsize = <<>>
       /\ grid = <<>>
       /\ axs = <<>>
       /\ nested = <<>>
       /\ farray = <<>>
       /\ passes = 0
       /\ err = ""
       /\ last = NoLast

NextConfig ==
    \/ Subplots
    \/ NOps < MaxOps /\ AnySideAxesPanelStep
    \/ NOps < MaxOps /\ AnySideFigurePanelStep
    \/ NOps < MaxOps /\ TightStep
    \/ Solve

SpecConfig == InitConfig /\ [][NextConfig]_vars

\* A figure whose axes may be hidden before it is drawn: the backend
\* measures the visible axes only
NextHidden ==
    \/ Subplots
    \/ \E i \in 1..Len(axs) : SetVisible(i, FALSE)
    \/ passes < MaxOps /\ TightStep

SpecHidden == Init /\ [][NextHidden]_vars
\* ------------------------------------------------------------------------
\* Properties
\* ------------------------------------------------------------------------
\* the extent of the grid slots first..last (0-based) of one direction: the
\* slots themselves and the gaps between them
Extent(ratios, spaces, first, last_) ==
    RAdd(RSum(SubSeq(ratios, first + 1, last_ + 1)), RSum(SubSeq(spaces, first + 1, last_)))

\* the rows and columns of the reference axes, and its physical size
RefCell == GetActiveRowsColumns(axs[req.ref].spec)

RefWidth == Extent(kw.wratios, kw.wspace, RefCell[5], RefCell[6])

RefHeight == Extent(kw.hratios, kw.hspace, RefCell[3], RefCell[4])

\* exactly one of the figure width and the figure height is automatic
OneAuto == Dims(kw).auto_width # Dims(kw).auto_height

\* a panel call has just returned
PanelReturned == phase = "ready" /\ last.op \in {"axpanel", "figpanel"}

\* C1: after subplots() and after every panel call that returned, with no
\* tight-layout pass made, whenever exactly one of the figure width and
\* height is automatic the physical width of the reference cell (every slot
\* and gap between its first and last column) divided by its physical height
\* equals aspect.
RefAspect ==
    (phase = "ready" /\ passes = 0 /\ OneAuto)
        => REq(RDiv(RefWidth, RefHeight), AspectOf(kw))

\* all entries of a sequence are the same
Uniform(s) == \A i, j \in 1..Len(s) : s[i] = s[j]

AllMain(panels) == \A i \in 1..Len(panels) : panels[i] = ""

\* the solver was given an R x C layout with no panels, uniform ratios, a
\* reference cell of one row and one column, axwidth and no width, height or
\* axheight
PlainAxWidthCase(k) ==
    /\ AllMain(k.wpanels) /\ AllMain(k.hpanels)
    /\ Uniform(k.wratios) /\ Uniform(k.hratios)
    /\ k.xref[1] = k.xref[2] /\ k.yref[1] = k.yref[2]
    /\ ~IsNone(k.axwidth)
    /\ IsNone(k.width) /\ IsNone(k.height) /\ IsNone(k.axheight)

\* C2: for an R x C layout with no panels, uniform ratios, a one-cell
\* reference, axwidth = a, aspect = s and no width, height or axheight, the
\* solver returns, with axheight = a/s: width = C*a + sum(wspace) + left +
\* right and height = R*(a/s) + sum(hspace) + top + bottom; every column it
\* solves is a wide and every row a/s high.
PlainAxWidthSolve ==
    (last.op = "solve" /\ PlainAxWidthCase(req))
        => /\ last.geo.err = ""
           /\ Dims(req).axheight = RDiv(req.axwidth, AspectOf(req))
           /\ last.geo.figsize[1] =
                RAdd(RAdd(RAdd(RMul(I(req.ncols), req.axwidth), RSum(req.wspace)), req.left), req.right)
           /\ last.geo.figsize[2] =
                RAdd(RAdd(RAdd(RMul(I(req.nrows), RDiv(req.axwidth, AspectOf(req))),
                               RSum(req.hspace)), req.top), req.bottom)
           /\ \A i \in 1..req.ncols : kw.wratios[i] = req.axwidth
           /\ \A i \in 1..req.nrows : kw.hratios[i] = RDiv(req.axwidth, AspectOf(req))

\* a 2 x 2 layout with a = 2, s = 1, margins of 1/2 and spaces of 1/5 was
\* solved to a figure of 5.2 by 5.2
PlainAxWidthSolved ==
    /\ last.op = "solve" /\ PlainAxWidthCase(req)
    /\ req.nrows = 2 /\ req.ncols = 2
    /\ req.axwidth = I(2) /\ AspectOf(req) = One
    /\ req.left = Q(1, 2) /\ req.wspace = <<Q(1, 5)>>
    /\ last.geo.figsize = <<Q(26, 5), Q(26, 5)>>

\* the cells 0..n-1 that a key names: an integer names itself (a negative
\* one counted from the end), a slice the cells from its start up to but not
\* including its stop
Named(key, n) ==
    LET at(v) == IF v < 0 THEN v + n ELSE v
    IN  IF key.slice
        THEN {i \in 0..(n - 1) : /\ key.start = NoInt \/ i >= at(key.start[1])
                                 /\ key.stop = NoInt \/ i < at(key.stop[1])}
        ELSE {i \in 0..(n - 1) : i = at(key.start[1])}

\* C5: for every grid and every pair of keys that each name at least one
\* cell (in-range integers, non-empty slices, negative values counted from
\* the end), grid[rows, cols] is a region whose physical first and last row
\* and column are twice the first and last cell named, and
\* get_active_rows_columns of the region gives back exactly those cells.
IndexRoundTrip ==
    (last.op = "getitem2" /\ Named(last.k1, grid.nrows_active) # {}
                          /\ Named(last.k2, grid.ncols_active) # {})
        => /\ last.spec.err = ""
           /\ PhysRowsColumns(last.spec) =
                <<2 * SetMin(Named(last.k1, grid.nrows_active)),
                  2 * SetMax(Named(last.k1, grid.nrows_active)),
                  2 * SetMin(Named(last.k2, grid.ncols_active)),
                  2 * SetMax(Named(last.k2, grid.ncols_active))>>
           /\ SubSeq(GetActiveRowsColumns(last.spec), 3, 6) =
                <<SetMin(Named(last.k1, grid.nrows_active)),
                  SetMax(Named(last.k1, grid.nrows_active)),
                  SetMin(Named(last.k2, grid.ncols_active)),
                  SetMax(Named(last.k2, grid.ncols_active))>>

\* the rows [-2:] of a grid of 4 rows were taken: cells 2 and 3, physical
\* rows 4 to 6
IndexedFromEnd ==
    /\ last.op = "getitem2"
    /\ grid.nrows_active = 4
    /\ last.k1 = SliceKey(<<-2>>, NoInt, NoInt)
    /\ last.k2 = IntKey(-1)
    /\ last.spec.err = ""
    /\ PhysRowsColumns(last.spec)[1] = 4 /\ PhysRowsColumns(last.spec)[2] = 6
    /\ GetActiveRowsColumns(last.spec)[3] = 2 /\ GetActiveRowsColumns(last.spec)[4] = 3

\* a panel call has just returned after making room for a new slot
Inserted == PanelReturned /\ ~last.exists

\* the same, for the step that is being taken
InsertedNext == phase' = "ready" /\ last'.op \in {"axpanel", "figpanel"} /\ ~last'.exists

\* a coordinate after an insertion at slot p
Bumped(x, p) == IF x >= p THEN x + 1 ELSE x

\* the region new is the region old after an insertion at slot p on side s:
\* moved along the affected direction, untouched along the other
Moved(old, new, s, p) ==
    LET c == GetActiveRowsColumns(old)
        d == GetActiveRowsColumns(new)
    IN  IF s \in {"l", "r"}
        THEN /\ d[3] = c[3] /\ d[4] = c[4]
             /\ d[5] = Bumped(c[5], p) /\ d[6] = Bumped(c[6], p)
        ELSE /\ d[3] = Bumped(c[3], p) /\ d[4] = Bumped(c[4], p)
             /\ d[5] = c[5] /\ d[6] = c[6]

\* nested gridspec g holds a child of a visible axes
HeldVisibly(g) ==
    \E i \in 1..Len(axs) : axs[i].visible /\ \E c \in 1..Len(axs[i].children) : axs[i].children[c] = g

\* C3: when a panel call makes room for a new slot p and returns, every
\* existing placement whose axes is visible has its first and last
\* coordinate on the affected direction increased by exactly 1 where it was
\* >= p and unchanged where it was < p, and its coordinates on the other
\* direction unchanged; so has the region of every nested gridspec that
\* holds child axes, also when several children share one nested gridspec.
RemapOnce ==
    [][InsertedNext =>
        /\ \A i \in 1..Len(axs) :
              axs[i].visible => Moved(axs[i].spec, axs'[i].spec, last'.s, last'.idx)
        /\ \A g \in 1..Len(nested) :
              HeldVisibly(g) => Moved(nested[g].spec, nested'[g].spec, last'.s, last'.idx)]_vars

\* the arrays and counts of one direction: the columns (lr) or the rows
PanelsOf(k, lr) == IF lr THEN k.wpanels ELSE k.hpanels

RatiosOfAxis(k, lr) == IF lr THEN k.wratios ELSE k.hratios

SpacesOf(k, lr) == IF lr THEN k.wspace ELSE k.hspace

CountOf(k, lr) == IF lr THEN k.ncols ELSE k.nrows

ActiveOf(g, lr) == IF lr THEN g.ncols_active ELSE g.nrows_active

PhysicalOf(g, lr) == IF lr THEN g.ncols ELSE g.nrows

PhysicalRatiosOf(g, lr) == IF lr THEN g.width_ratios ELSE g.height_ratios

\* the ratio array new is the ratio array old with its main entries rescaled
\* by one common factor: same length, same panel entries, same proportions
\* between main entries
Rescaled(panels, old, new) ==
    /\ Len(new) = Len(old)
    /\ \A i \in 1..Len(old) : panels[i] # "" => new[i] = old[i]
    /\ \A i, j \in 1..Len(old) :
          (panels[i] = "" /\ panels[j] = "") => RMul(new[i], old[j]) = RMul(new[j], old[i])

\* a panel call has just returned after finding its slot in place
ReinsertedNext == phase' = "ready" /\ last'.op \in {"axpanel", "figpanel"} /\ last'.exists

\* the gap (1-based) on the parent's side of the slot the call asked for
ParentGap == PyPos(SpacesOf(kw, last'.s \in {"l", "r"}),
                   last'.asked - (IF last'.s \in {"b", "r"} THEN 1 ELSE 0))

\* what a call that found its slot in place leaves alone, and the one gap
\* it sets
ReinsertFrame ==
    LET lr == last'.s \in {"l", "r"}
        g == ParentGap
    IN  /\ kw'.nrows = kw.nrows /\ kw'.ncols = kw.ncols
        /\ kw'.wpanels = kw.wpanels /\ kw'.hpanels = kw.hpanels
        /\ grid'.id = grid.id
        /\ grid'.nrows = grid.nrows /\ grid'.ncols = grid.ncols
        /\ grid'.nrows_active = grid.nrows_active /\ grid'.ncols_active = grid.ncols_active
        /\ Len(axs') = Len(axs) + 1
        /\ SpacesOf(kw', ~lr) = SpacesOf(kw, ~lr)
        /\ SpacesOf(orig', ~lr) = SpacesOf(orig, ~lr)
        /\ Len(SpacesOf(kw', lr)) = Len(SpacesOf(kw, lr))
        /\ \A i \in 1..Len(SpacesOf(kw, lr)) :
              i # g => /\ SpacesOf(kw', lr)[i] = SpacesOf(kw, lr)[i]
                       /\ SpacesOf(orig', lr)[i] = SpacesOf(orig, lr)[i]
        /\ SpacesOf(orig', lr)[g] = NotNone(SpacesOf(orig, lr)[g], last'.kwp.space_orig)
        /\ SpacesOf(kw', lr)[g] = NotNone(SpacesOf(orig', lr)[g], last'.kwp.space)

\* C4 as stated: a panel call whose slot lies inside the tag array and
\* already holds the same tag inserts nothing: the counts, the tag arrays
\* and the ratio arrays are unchanged, the grid is the same object, and only
\* the gap on the parent's side is set, to the pinned override if there is
\* one and to this call's space otherwise.
ReinsertKeepsRatios ==
    [][ReinsertedNext => /\ ReinsertFrame
                         /\ kw'.wratios = kw.wratios
                         /\ kw'.hratios = kw.hratios]_vars

\* C4, amended: as above, except that the solve that follows rescales the
\* main entries of the ratio arrays (their lengths, their panel entries and
\* the proportions between main entries are unchanged).
ReinsertKeepsShares ==
    [][ReinsertedNext => /\ ReinsertFrame
                         /\ Rescaled(kw.wpanels, kw.wratios, kw'.wratios)
                         /\ Rescaled(kw.hpanels, kw.hratios, kw'.hratios)]_vars

\* a right panel was added twice at the same slot, the second time with a
\* space of its own: the gap is that space and the grid has not grown
Reinserted ==
    /\ PanelReturned /\ last.exists /\ last.s = "r"
    /\ last.kwp.space = Q(3, 10)
    /\ kw.wspace[last.asked] = Q(3, 10)
    /\ kw.ncols = 3 /\ grid.ncols = 5

\* what an insertion does to the counts and to the other direction's tags,
\* spaces and overrides
InsertFrame ==
    LET lr == last'.s \in {"l", "r"}
    IN  /\ CountOf(kw', lr) = CountOf(kw, lr) + 1
        /\ ActiveOf(grid', lr) = ActiveOf(grid, lr) + 1
        /\ PhysicalOf(grid', lr) = PhysicalOf(grid, lr) + 2
        /\ Len(PhysicalRatiosOf(grid', lr)) = Len(PhysicalRatiosOf(grid, lr)) + 2
        /\ Len(PanelsOf(kw', lr)) = Len(PanelsOf(kw, lr)) + 1
        /\ Len(RatiosOfAxis(kw', lr)) = Len(RatiosOfAxis(kw, lr)) + 1
        /\ Len(SpacesOf(kw', lr)) = Len(SpacesOf(kw, lr)) + 1
        /\ Len(SpacesOf(orig', lr)) = Len(SpacesOf(orig, lr)) + 1
        /\ CountOf(kw', ~lr) = CountOf(kw, ~lr)
        /\ ActiveOf(grid', ~lr) = ActiveOf(grid, ~lr)
        /\ PhysicalOf(grid', ~lr) = PhysicalOf(grid, ~lr)
        /\ Len(PhysicalRatiosOf(grid', ~lr)) = Len(PhysicalRatiosOf(grid, ~lr))
        /\ PanelsOf(kw', ~lr) = PanelsOf(kw, ~lr)
        /\ SpacesOf(kw', ~lr) = SpacesOf(kw, ~lr)
        /\ SpacesOf(orig', ~lr) = SpacesOf(orig, ~lr)

\* C9 as stated: a panel call that makes room for a new slot increases the
\* active count of the affected direction by exactly 1 and its physical size
\* by exactly 2, and leaves the counts and the arrays of the other direction
\* unchanged.
InsertKeepsOtherRatios ==
    [][InsertedNext =>
        /\ InsertFrame
        /\ RatiosOfAxis(kw', ~(last'.s \in {"l", "r"})) = RatiosOfAxis(kw, ~(last'.s \in {"l", "r"}))]_vars

\* C9, amended: as above, except that the solve that follows rescales the
\* main entries of the other direction's ratio array (its length, its panel
\* entries and the proportions between its main entries are unchanged).
InsertGrowsByOne ==
    [][InsertedNext =>
        /\ InsertFrame
        /\ Rescaled(PanelsOf(kw, ~(last'.s \in {"l", "r"})),
                    RatiosOfAxis(kw, ~(last'.s \in {"l", "r"})),
                    RatiosOfAxis(kw', ~(last'.s \in {"l", "r"})))]_vars

\* a bottom panel made a figure of 2 rows one of 3 (5 physical rows) and
\* left its 2 columns (3 physical columns) alone
RowInserted ==
    /\ Inserted /\ last.s = "b"
    /\ kw.nrows = 3 /\ grid.nrows_active = 3 /\ grid.nrows = 5
    /\ kw.ncols = 2 /\ grid.ncols_active = 2 /\ grid.ncols = 3

\* C10: after a panel call asked for slot idx and made room for it, the new
\* panel occupies slot p = idx + 1 (left, top) or p = idx (right, bottom);
\* the new gap is the one between the panel and its neighbour on the
\* parent's side, gap p for left and top and gap p - 1 for right and bottom,
\* also at the edges idx = -1 and idx = length; every slot that existed keeps
\* its tag and every gap that existed keeps its value between the same two
\* slots, except the gap the panel was inserted into.
InsertPlacesGap ==
    [][InsertedNext =>
        LET lr == last'.s \in {"l", "r"}
            near == last'.s \in {"l", "t"}
            p == last'.idx
            gap == IF near THEN p ELSE p - 1
            pax == GetActiveRowsColumns(axs'[Len(axs')].spec)
        IN  /\ p = (IF near THEN last'.asked + 1 ELSE last'.asked)
            /\ PanelsOf(kw', lr)[p + 1] = (IF last'.op = "figpanel" THEN "f" ELSE last'.s)
            /\ RatiosOfAxis(kw', lr)[p + 1] = last'.kwp.width
            /\ Len(axs') = Len(axs) + 1
            /\ IF lr THEN pax[5] = p /\ pax[6] = p ELSE pax[3] = p /\ pax[4] = p
            /\ SpacesOf(kw', lr)[gap + 1] = last'.kwp.space
            /\ SpacesOf(orig', lr)[gap + 1] = last'.kwp.space_orig
            /\ \A j \in 0..(Len(PanelsOf(kw, lr)) - 1) :
                  PanelsOf(kw', lr)[Bumped(j, p) + 1] = PanelsOf(kw, lr)[j + 1]
            /\ \A k \in 0..(Len(SpacesOf(kw, lr)) - 1) :
                  k + 1 # p => /\ SpacesOf(kw', lr)[Bumped(k, p) + 1] = SpacesOf(kw, lr)[k + 1]
                               /\ SpacesOf(orig', lr)[Bumped(k, p) + 1] = SpacesOf(orig, lr)[k + 1]]_vars

\* a left panel asked for slot -1, ahead of every slot, and went to slot 0
InsertedAtLeftEdge == Inserted /\ last.s = "l" /\ last.asked = -1 /\ last.idx = 0

\* the main and the panel entries of a ratio array, added up
MainTotal(panels, ratios) ==
    RSum([i \in 1..Len(ratios) |-> IF panels[i] = "" THEN ratios[i] ELSE Zero])

PanelTotal(panels, ratios) ==
    RSum([i \in 1..Len(ratios) |-> IF panels[i] # "" THEN ratios[i] ELSE Zero])

\* what a figure extent leaves for the main slots: the extent minus the two
\* margins, all gaps and all panel entries
MainRoom(extent, m1, m2, spaces, panels, ratios) ==
    RSub(RSub(RSub(RSub(extent, m1), m2), RSum(spaces)), PanelTotal(panels, ratios))

\* the solver has just returned a geometry
SolveReturned == last.op = "solve" /\ last.geo.err = ""

\* C6: after every solve that returned a geometry, the main entries of each
\* solved ratio array add up to the main-content extent of their direction
\* (the returned figure extent minus the two margins, all gaps and all panel
\* entries), so that margins, gaps, panel entries and main entries add up to
\* the returned figure width and height.
RatiosFillExtent ==
    SolveReturned =>
        /\ REq(MainTotal(kw.wpanels, kw.wratios),
               MainRoom(figsize[1], kw.left, kw.right, kw.wspace, kw.wpanels, kw.wratios))
        /\ REq(MainTotal(kw.hpanels, kw.hratios),
               MainRoom(figsize[2], kw.top, kw.bottom, kw.hspace, kw.hpanels, kw.hratios))
        /\ REq(RAdd(RAdd(RAdd(kw.left, kw.right), RSum(kw.wspace)), RSum(kw.wratios)), figsize[1])
        /\ REq(RAdd(RAdd(RAdd(kw.top, kw.bottom), RSum(kw.hspace)), RSum(kw.hratios)), figsize[2])

\* the room a given figure extent leaves is negative (no extent given: no)
NoRoom(extent, m1, m2, spaces, panels, ratios) ==
    ~IsNone(extent) /\ RLt(MainRoom(extent, m1, m2, spaces, panels, ratios), Zero)

\* the share of the reference cell among the main ratios is zero
ZeroShare(panels, ratios, ref) ==
    LET main == [j \in 1..Len(MainIdx(panels)) |-> ratios[MainIdx(panels)[j]]]
    IN  REq(RDiv(RSum(SubSeq(main, ref[1] + 1, ref[2] + 1)), RSum(main)), Zero)

\* C7: the solver returns a geometry whose main-content extent is
\* non-negative in both directions, or raises: ValueError whenever a given
\* figure extent leaves negative room for the main slots, RuntimeError
\* whenever the share of the reference cell is zero (either of the two where
\* both apply); it never returns a negative extent, and when it raises the
\* stored ratio arrays are as they were.
SolveOrRaise ==
    (last.op = "solve") =>
        LET norow == NoRoom(req.height, req.top, req.bottom, req.hspace, req.hpanels, req.hratios)
            nocol == NoRoom(req.width, req.left, req.right, req.wspace, req.wpanels, req.wratios)
            zero == ZeroShare(req.wpanels, req.wratios, req.xref)
                    \/ ZeroShare(req.hpanels, req.hratios, req.yref)
        IN  /\ (norow \/ nocol) /\ ~zero => last.geo.err = "ValueError"
            /\ zero /\ ~(norow \/ nocol) => last.geo.err = "RuntimeError"
            /\ (norow \/ nocol) /\ zero => last.geo.err \in {"ValueError", "RuntimeError"}
            /\ last.geo.err = "" =>
                  /\ RLe(Zero, MainTotal(kw.wpanels, kw.wratios))
                  /\ RLe(Zero, MainTotal(kw.hpanels, kw.hratios))
                  /\ RLe(Zero, MainRoom(figsize[1], kw.left, kw.right, kw.wspace, kw.wpanels, kw.wratios))
                  /\ RLe(Zero, MainRoom(figsize[2], kw.top, kw.bottom, kw.hspace, kw.hpanels, kw.hratios))
            /\ last.geo.err # "" => kw.wratios = req.wratios /\ kw.hratios = req.hratios

\* the same two claims for the solves whose main ratios do not add up to zero
RatiosFillExtentNonzero ==
    last.op # "solve" \/ (REq(MainTotal(req.wpanels, req.wratios), Zero) \/ REq(MainTotal(req.hpanels, req.hratios), Zero))
        \/ RatiosFillExtent

SolveOrRaiseNonzero ==
    last.op # "solve" \/ (REq(MainTotal(req.wpanels, req.wratios), Zero) \/ REq(MainTotal(req.hpanels, req.hratios), Zero))
        \/ SolveOrRaise

\* the solver has raised the one and the other error
SolveRaisedValue == last.op = "solve" /\ last.geo.err = "ValueError"

SolveRaisedRuntime == last.op = "solve" /\ last.geo.err = "RuntimeError"

\* the arrays of one direction have the shape that goes with the count n
ShapeOf(lr) ==
    LET n == CountOf(kw, lr)
        phys == PhysicalRatiosOf(grid, lr)
    IN  /\ Len(PanelsOf(kw, lr)) = n
        /\ Len(RatiosOfAxis(kw, lr)) = n
        /\ Len(SpacesOf(kw, lr)) = n - 1
        /\ Len(SpacesOf(orig, lr)) = n - 1
        /\ ActiveOf(grid, lr) = n
        /\ PhysicalOf(grid, lr) = 2 * n - 1
        /\ Len(phys) = 2 * n - 1
        /\ \A i \in 1..Len(phys) :
              phys[i] = (IF i % 2 = 1 THEN RatiosOfAxis(kw, lr)[(i + 1) \div 2]
                         ELSE SpacesOf(kw, lr)[i \div 2])

\* C8: once the figure is created, after any sequence of panel calls and
\* tight layout passes, in each direction with count n the tag array and the
\* ratio array have length n, the space array and the override array have
\* length n - 1, the grid has n active and 2n - 1 physical slots, and its
\* physical ratio array has length 2n - 1 with the ratios at the even
\* (0-based) positions and the gaps at the odd ones.
ShapeInvariant == grid # <<>> => ShapeOf(TRUE) /\ ShapeOf(FALSE)

\* the same for the figures whose last call returned
ShapeInvariantReady == phase = "ready" => ShapeOf(TRUE) /\ ShapeOf(FALSE)

\* the four margins
Margins == {"left", "right", "top", "bottom"}

\* in the state st every margin and every gap that has an override holds it
HoldsOverrides(k, o) ==
    /\ \A m \in Margins : ~IsNone(o[m]) => k[m] = o[m]
    /\ \A lr \in BOOLEAN :
          /\ Len(SpacesOf(o, lr)) = Len(SpacesOf(k, lr))
          /\ \A i \in 1..Len(SpacesOf(o, lr)) :
                ~IsNone(SpacesOf(o, lr)[i]) => SpacesOf(k, lr)[i] = SpacesOf(o, lr)[i]

\* where gap i (1-based) of direction lr is after the step: one further on
\* when the step put a new gap at or before it
GapAfter(lr, i) ==
    IF /\ Len(SpacesOf(kw', lr)) = Len(SpacesOf(kw, lr)) + 1
       /\ lr = (last'.s \in {"l", "r"})
       /\ i >= (IF last'.s \in {"l", "t"} THEN last'.idx + 1 ELSE last'.idx)
    THEN i + 1 ELSE i

\* the overrides of the state before the step are the overrides after it
KeepsOverrides ==
    /\ \A m \in Margins : ~IsNone(orig[m]) => orig'[m] = orig[m]
    /\ \A lr \in BOOLEAN : \A i \in 1..Len(SpacesOf(orig, lr)) :
          ~IsNone(SpacesOf(orig, lr)[i]) =>
              /\ GapAfter(lr, i) <= Len(SpacesOf(orig', lr))
              /\ SpacesOf(orig', lr)[GapAfter(lr, i)] = SpacesOf(orig, lr)[i]

\* C11: once a margin or a gap has an override (given to subplots(), given
\* as the space of the panel call that made the gap, or pinned by the first
\* panel call on a slot in place that gives one), the stored value is that
\* override in every state any later panel call or tight-layout pass
\* reaches: the override stays with its gap and the value stays the override.
OverrideWins ==
    [][/\ grid' # <<>> => HoldsOverrides(kw', orig')
       /\ grid # <<>> => KeepsOverrides
       /\ (last'.op = "subplots" /\ grid' # <<>>) => orig' = InitialOrig(req)]_vars

\* a tight-layout pass has refined the left margin of a figure and left
\* the gap of a panel, pinned at 3/10 by the call that made it, at 3/10
OverrideKeptByTight ==
    /\ phase = "ready" /\ last.op = "tight" /\ NPanels > 0
    /\ kw.left # InitialKw(req).left
    /\ \E i \in 1..Len(kw.wspace) :
          /\ orig.wspace[i] = Q(3, 10) /\ kw.wspace[i] = Q(3, 10)
          /\ kw.wpanels[i] # "" \/ kw.wpanels[i + 1] # ""

\* a tight-layout pass is being made
TightNext == last'.op = "tight"

\* the pairs <<p, q>> of iterated axes that abut gap i (0-based) of
\* direction x: p ends at the gap, q begins after it, and both cover one
\* same row (x = "x") or column (x = "y")
AbutPairs(x, i) ==
    LET y == IF x = "x" THEN "y" ELSE "x"
        it == IterAxes(axs)
        S == {it[k] : k \in 1..Len(it)}
        nacross == IF x = "x" THEN grid.nrows_active ELSE grid.ncols_active
    IN  {pq \in S \X S :
            /\ RangeGridspec(axs[pq[1]], x)[2] = i
            /\ RangeGridspec(axs[pq[2]], x)[1] = i + 1
            /\ \E j \in 0..(nacross - 1) :
                  /\ RangeGridspec(axs[pq[1]], y)[1] <= j /\ j <= RangeGridspec(axs[pq[1]], y)[2]
                  /\ RangeGridspec(axs[pq[2]], y)[1] <= j /\ j <= RangeGridspec(axs[pq[2]], y)[2]}

\* the group of the pairs P that holds the pairs G: every pair that shares
\* a member with one of the group (more: the pairs that share one with G)
RECURSIVE GroupOf(_, _)
GroupGrown(G, P, more) == IF more \subseteq G THEN G ELSE GroupOf(G \cup more, P)

GroupOf(G, P) == GroupGrown(G, P, {r \in P : \E g \in G : r[1] = g[1] \/ r[2] = g[2]})

\* the measured separation between the two sides of a group: along x the
\* least left edge of those after the gap minus the greatest right edge of
\* those before it; along y (rows run downwards) the least lower edge of
\* those above the gap minus the greatest upper edge of those below it
SeparationOf(x, before, after, ext) ==
    IF x = "x"
    THEN RSub(MinOf([k \in 1..Len(after) |-> RangeTightbbox(St, axs[after[k]], ext[after[k]], x)[1]]),
              MaxOf([k \in 1..Len(before) |-> RangeTightbbox(St, axs[before[k]], ext[before[k]], x)[2]]))
    ELSE RSub(MinOf([k \in 1..Len(before) |-> RangeTightbbox(St, axs[before[k]], ext[before[k]], x)[1]]),
              MaxOf([k \in 1..Len(after) |-> RangeTightbbox(St, axs[after[k]], ext[after[k]], x)[2]]))

GroupSeparation(x, G, ext) ==
    SeparationOf(x, Ascending({g[1] : g \in G}), Ascending({g[2] : g \in G}), ext)

\* m: the least separation over the groups of the pairs P (P not empty), G
\* being one of the groups
RECURSIVE LeastSeparation(_, _, _)
LeastFrom(x, P, G, ext) ==
    IF P \ G = {} THEN GroupSeparation(x, G, ext)
    ELSE PyMin(GroupSeparation(x, G, ext), LeastSeparation(x, P \ G, ext))

LeastSeparation(x, P, ext) == LeastFrom(x, P, GroupOf({CHOOSE r \in P : TRUE}, P), ext)

\* what the pass makes of a gap of direction x with no override, whose
\* value is cur, whose pad is pad and whose abutting pairs are P
RefinedGap(x, cur, pad, P, ext) ==
    IF P = {} THEN cur
    ELSE PyMax(Zero, RAdd(RSub(cur, LeastSeparation(x, P, ext)), pad))

\* C12: in a tight-layout pass every gap with no override and at least one
\* pair of abutting axes becomes max(0, gap - m + pad), m being the least
\* measured separation over the abutting groups; a gap with no abutting pair
\* keeps its value; so no gap without an override that was recomputed is
\* negative afterwards.
TightGaps ==
    [][TightNext =>
        \A x \in {"x", "y"} : \A i \in 1..Len(SpacesOf(kw, x = "x")) :
            IsNone(SpacesOf(orig, x = "x")[i]) =>
                \A P \in {AbutPairs(x, i - 1)} :
                    /\ SpacesOf(kw', x = "x")[i] =
                          RefinedGap(x, SpacesOf(kw, x = "x")[i],
                                     GapPad(PanelsOf(kw, x = "x"), i - 1), P, last'.ext)
                    /\ P # {} => RLe(Zero, SpacesOf(kw', x = "x")[i])]_vars

\* a pass has closed a gap between two rows to the pad: nothing overhung,
\* so the separation measured was the gap itself
GapClosedToPad ==
    /\ phase = "ready" /\ last.op = "tight"
    /\ \A n \in 1..Len(last.ext) : last.ext[n] = Zero
    /\ IsNone(orig.hspace[1]) /\ kw.hspace[1] = RcAxPad
    /\ InitialKw(req).hspace[1] # RcAxPad

\* the pad of the gap between the slots tagged p and q as the statement has
\* it: axpad between two main cells, panelpad next to any panel slot
PadByNeighbour(p, q) == IF p = "" /\ q = "" THEN RcAxPad ELSE RcPanelPad

\* the pad of the gap between the slots tagged p and q: panelpad on the
\* parent's side of an axes panel (after a left or top panel, before a right
\* or bottom panel) and between two figure panels, axpad everywhere else
PadByParent(p, q) ==
    IF p \in {"l", "t"} \/ q \in {"r", "b"} \/ (p = "f" /\ q = "f")
    THEN RcPanelPad ELSE RcAxPad

Indexed == last.op \in {"getitem2", "getitem1"} /\ last.spec.err = ""

\* the region starts and ends on an even physical row and column
OnContent(ss) == \A k \in 1..4 : PhysRowsColumns(ss)[k] % 2 = 0

\* the first and last row and column of the cells first..last of a grid of
\* C columns, numbered row by row
CellsOf(first, last_, C) == <<first \div C, last_ \div C, first % C, last_ % C>>

\* the rows and columns that the key of the lookup names
NamedRegion ==
    IF last.op = "getitem2"
    THEN <<SetMin(Named(last.k1, grid.nrows_active)), SetMax(Named(last.k1, grid.nrows_active)),
           SetMin(Named(last.k2, grid.ncols_active)), SetMax(Named(last.k2, grid.ncols_active))>>
    ELSE CellsOf(SetMin(Named(last.k1, grid.nrows_active * grid.ncols_active)),
                 SetMax(Named(last.k1, grid.nrows_active * grid.ncols_active)),
                 grid.ncols_active)

\* C14: for every key the gridspec accepts, a pair of row and column keys
\* or one flat key over the nrows_active * ncols_active cells, the region
\* returned starts and ends on an even physical row and an even physical
\* column, and it is the region of the cells the key names.
IndexOnContent ==
    Indexed => /\ OnContent(last.spec)
               /\ SubSeq(GetActiveRowsColumns(last.spec), 3, 6) = NamedRegion

\* the same for the lookups with a pair of keys only
PairIndexOnContent == last.op = "getitem1" \/ IndexOnContent

\* what normalising a key over n cells should give: the first and last cell
\* it names, or nothing (an index error) when it names none
NormalForm(key, n) ==
    IF Named(key, n) = {} THEN <<>> ELSE <<SetMin(Named(key, n)), SetMax(Named(key, n))>>

\* C15: normalising a key over a size n accepts every integer in
\* [-n, n-1], a negative k standing for k + n, and every slice start:stop
\* that selects at least one cell, giving the inclusive ends start and
\* stop - 1; it rejects with IndexError every integer outside [-n, n-1] and
\* every slice that selects no cell, and a lookup with a rejected key gives
\* no region.
NormalizeAcceptsNamed ==
    /\ last.op = "getitem1" =>
          LET n == grid.nrows_active * grid.ncols_active
          IN  /\ Normalize(last.k1, n) = NormalForm(last.k1, n)
              /\ IF NormalForm(last.k1, n) = <<>>
                 THEN last.spec = [err |-> "IndexError"]
                 ELSE /\ last.spec.err = ""
                      /\ last.spec.num1 = 2 * NormalForm(last.k1, n)[1]
                      /\ last.spec.num2 = 2 * NormalForm(last.k1, n)[2]
    /\ last.op = "getitem2" =>
          /\ Normalize(last.k1, grid.nrows_active) = NormalForm(last.k1, grid.nrows_active)
          /\ Normalize(last.k2, grid.ncols_active) = NormalForm(last.k2, grid.ncols_active)
          /\ IF \/ NormalForm(last.k1, grid.nrows_active) = <<>>
                \/ NormalForm(last.k2, grid.ncols_active) = <<>>
             THEN last.spec = [err |-> "IndexError"]
             ELSE last.spec.err = ""

\* cell -5 of a grid of 4 cells was asked for and refused, no region given
IndexRefused ==
    /\ last.op = "getitem1"
    /\ grid.nrows_active = 2 /\ grid.ncols_active = 2
    /\ last.k1 = IntKey(-5)
    /\ last.spec = [err |-> "IndexError"]


\* ------------------------------------------------------------------------
\* C16
\* ------------------------------------------------------------------------
\* the stored counts, tags, ratios, spaces, overrides, the figure size, the
\* grid and the axes are as before the step
LayoutUntouched ==
    /\ kw' = kw
    /\ orig' = orig
    /\ figsize' = figsize
    /\ grid' = grid
    /\ axs' = axs
    /\ nested' = nested
    /\ farray' = farray

\* the step is a panel call with a side whose first letter is none of l,
\* r, b, t
BadSideCall == last'.op \in {"axpanel", "figpanel"} /\ last'.s \notin {"l", "r", "b", "t"}

\* the step is a solve of arrays whose lengths do not fit the counts
BadLengthSolve ==
    /\ phase = "solver"
    /\ last'.op = "solve"
    /\ \/ Len(kw.wratios) # kw.ncols \/ Len(kw.wspace) # kw.ncols - 1 \/ Len(kw.wpanels) # kw.ncols
       \/ Len(kw.hratios) # kw.nrows \/ Len(kw.hspace) # kw.nrows - 1 \/ Len(kw.hpanels) # kw.nrows

\* C16: a panel call with a side whose first letter is not one of l, r, b, t
\* raises ValueError, and so does a solve whose ratio, space or panel tag
\* arrays do not have the lengths n, n-1 and n of its row and column counts;
\* both leave the stored counts, tags, ratios, spaces, overrides and the
\* grid exactly as they were before the call
ConfigErrorsFirst ==
    [][(BadSideCall \/ BadLengthSolve) => err' = "ValueError" /\ LayoutUntouched]_vars

\* a panel on side "x" was refused on a figure that already has a panel
\* slot in its grid
BadSideRefused ==
    /\ phase = "failed"
    /\ err = "ValueError"
    /\ last.op = "axpanel"
    /\ last.s = "x"
    /\ \E i \in 1..Len(kw.wpanels) : kw.wpanels[i] = "r"

\* a solve of two columns with three width ratios was refused
BadLengthRefused ==
    /\ phase = "failed"
    /\ err = "ValueError"
    /\ last.op = "solve"
    /\ kw.ncols = 2
    /\ Len(kw.wratios) = 3

\* ------------------------------------------------------------------------
\* C17
\* ------------------------------------------------------------------------
\* the ratio entries of the panel slots, in slot order
PanelEntries(panels, ratios) ==
    LET idx == Ascending({i \in 1..Len(panels) : panels[i] # ""})
    IN  [j \in 1..Len(idx) |-> ratios[idx[j]]]

\* the sequence s without its entry p
Without(s, p) == SubSeq(s, 1, p - 1) \o SubSeq(s, p + 1, Len(s))

\* the panel entries of direction lr are those of before the step
EntriesKept(lr) ==
    PanelEntries(PanelsOf(kw', lr), RatiosOfAxis(kw', lr))
        = PanelEntries(PanelsOf(kw, lr), RatiosOfAxis(kw, lr))

\* the new slot p (1-based) of direction lr holds the width w, the panel
\* entries of the other slots are those of before the step
EntryAdded(lr, p, w) ==
    /\ PanelsOf(kw', lr)[p] # ""
    /\ RatiosOfAxis(kw', lr)[p] = w
    /\ PanelEntries(Without(PanelsOf(kw', lr), p), Without(RatiosOfAxis(kw', lr), p))
            = PanelEntries(PanelsOf(kw, lr), RatiosOfAxis(kw, lr))

\* the ratios of the panel slots in the gridspec (the solver's output) are
\* the stored ones
GridHoldsEntries(g, k) ==
    /\ \A i \in 1..Len(k.wpanels) : k.wpanels[i] # "" => g.width_ratios[2 * i - 1] = k.wratios[i]
    /\ \A i \in 1..Len(k.hpanels) : k.hpanels[i] # "" => g.height_ratios[2 * i - 1] = k.hratios[i]

\* k1 is k0 but for the ratio entries of the main slots
MainRewritten(k0, k1) ==
    /\ [k1 EXCEPT !.wratios = k0.wratios, !.hratios = k0.hratios] = k0
    /\ Len(k1.wratios) = Len(k0.wratios)
    /\ Len(k1.hratios) = Len(k0.hratios)
    /\ \A i \in 1..Len(k0.wpanels) : k0.wpanels[i] # "" => k1.wratios[i] = k0.wratios[i]
    /\ \A i \in 1..Len(k0.hpanels) : k0.hpanels[i] # "" => k1.hratios[i] = k0.hratios[i]

\* the keyword args the solve of the step was given
SolveGiven ==
    IF last'.op = "subplots" THEN InitialKw(req)
    ELSE IF last'.op = "tight"
    THEN TightKw(St, IterAxes(axs), last'.ext,
                 TightMargins(St, FigureTightbbox(St, IterAxes(axs), last'.ext)))
    ELSE InsertArrays(St, last'.s, last'.asked, last'.kwp.width, last'.kwp.space,
                      last'.kwp.space_orig, last'.op = "figpanel").kw

\* C17: panels keep their literal widths.  After a panel call that made
\* room for a slot, the ratio entry of the new slot is the width the call
\* was given, in the stored array and in the gridspec the solver's output
\* went to; every other panel slot, and every panel slot after a panel call
\* that found its slot or after a tight-layout pass, has the ratio entry it
\* had before.  The solve of a step rewrites only the ratio entries of main
\* slots: counts, tags, gaps, margins and panel entries are the ones it was
\* given.
PanelWidthsKept ==
    [][phase' = "ready" =>
        /\ GridHoldsEntries(grid', kw')
        /\ \A given \in {SolveGiven} : MainRewritten(given, kw')
        /\ last'.op = "tight" => EntriesKept(TRUE) /\ EntriesKept(FALSE)
        /\ last'.op \in {"axpanel", "figpanel"} =>
            /\ EntriesKept(~(last'.s \in {"l", "r"}))
            /\ IF last'.exists THEN EntriesKept(last'.s \in {"l", "r"})
               ELSE EntryAdded(last'.s \in {"l", "r"}, last'.idx + 1, last'.kwp.width)]_vars

\* a tight-layout pass on a figure with a panel column of width 1/4 next to
\* main columns whose widths the pass rewrote
PanelWidthKeptByTight ==
    /\ phase = "ready"
    /\ last.op = "tight"
    /\ \E i \in 1..Len(kw.wpanels) :
        /\ kw.wpanels[i] = "r"
        /\ kw.wratios[i] = Q(1, 4)
        /\ grid.width_ratios[2 * i - 1] = Q(1, 4)
    /\ \E i \in 1..Len(kw.wpanels) : kw.wpanels[i] = "" /\ kw.wratios[i] # req.wratios[1]

\* ------------------------------------------------------------------------
\* C18
\* ------------------------------------------------------------------------
\* aspect ratios other than the one the solve was given
OtherAspects == SolveAspects \cup {Scalar(Q(1, 3)), Pair(I(1), I(4))}

\* what a solve of k returns, but for the aspect it hands back in kwargs
OutputOf(geo) ==
    IF geo.err # "" THEN [err |-> geo.err]
    ELSE [err |-> "", figsize |-> geo.figsize, gridspec_kw |-> geo.gridspec_kw,
          kwargs |-> [geo.kwargs EXCEPT !.aspect = Scalar(One)]]

AspectIgnored(k, out) ==
    \A a \in OtherAspects : OutputOf(SubplotsGeometry([k EXCEPT !.aspect = a])) = out

\* C18: a solve that is given a figure width returns it as the figure
\* width, and likewise for the height; given both, it returns exactly
\* (width, height) and its figure size, ratio arrays and margins are the same
\* for every aspect.  The auto-width and auto-height flags the solve acts on
\* are never both true.
SizeAsSupplied ==
    last.op = "solve" =>
        /\ ~(Dims(req).auto_width /\ Dims(req).auto_height)
        /\ last.geo.err = "" =>
            /\ ~IsNone(req.width) => last.geo.figsize[1] = req.width
            /\ ~IsNone(req.height) => last.geo.figsize[2] = req.height
            /\ ~IsNone(req.width) /\ ~IsNone(req.height) =>
                /\ last.geo.figsize = <<req.width, req.height>>
                /\ AspectIgnored(req, OutputOf(last.geo))

\* a solve was given width 5 and height 4 and an aspect of 3/2, for a grid
\* with a panel column
BothSupplied ==
    /\ last.op = "solve"
    /\ last.geo.err = ""
    /\ req.width = I(5)
    /\ req.height = I(4)
    /\ req.aspect = Pair(I(3), I(2))
    /\ \E i \in 1..Len(req.wpanels) : req.wpanels[i] = "r"
    /\ figsize = <<I(5), I(4)>>

\* ------------------------------------------------------------------------
\* C19
\* ------------------------------------------------------------------------
\* the margins of the gridspec are the stored margins as fractions of the
\* figure size
FractionsOfStored ==
    /\ grid.left = RDiv(kw.left, figsize[1])
    /\ grid.right = RSub(One, RDiv(kw.right, figsize[1]))
    /\ grid.bottom = RDiv(kw.bottom, figsize[2])
    /\ grid.top = RSub(One, RDiv(kw.top, figsize[2]))

InUnit(lo, hi) == RLe(Zero, lo) /\ RLe(lo, hi) /\ RLe(hi, One)

\* C19: every geometry produced by subplots(), by a panel call or by a
\* tight-layout pass, whatever the backend measured, has fractional margins
\* left = left/width, right = 1 - right/width, bottom = bottom/height and
\* top = 1 - top/height with 0 <= left <= right <= 1 and
\* 0 <= bottom <= top <= 1.
MarginsInUnit ==
    phase = "ready" =>
        /\ FractionsOfStored
        /\ InUnit(grid.left, grid.right)
        /\ InUnit(grid.bottom, grid.top)

\* the same for the geometries that hold numbers: a solve of main ratios
\* that sum to zero returns nan for the figure size, the ratios and the
\* margins
MarginsInUnitOfNumbers ==
    phase = "ready" /\ ~IsNaN(figsize[1]) /\ ~IsNaN(figsize[2]) =>
        /\ FractionsOfStored
        /\ InUnit(grid.left, grid.right)
        /\ InUnit(grid.bottom, grid.top)

\* ------------------------------------------------------------------------
\* C20
\* ------------------------------------------------------------------------
\* the step is a tight-layout pass whose solve, of the refined margins and
\* gaps, fails
TightSolveFails == last'.op = "tight" /\ \E k \in {SolveGiven} : SubplotsGeometry(k).err # ""

\* C20: when the solve of a tight-layout pass fails, the refinement is
\* skipped: no error ends the draw, and the stored margins, gaps and ratios,
\* the figure size and the grid are those of before the pass.
TightSkipsOnFailure ==
    [][TightSolveFails =>
        /\ err' = ""
        /\ phase' = "ready"
        /\ kw' = kw
        /\ figsize' = figsize
        /\ grid' = grid]_vars

\* the geometry a failed pass leaves behind: the figure size and the grid
\* are those of before the pass
TightFailureKeepsGrid ==
    [][TightSolveFails => figsize' = figsize /\ grid' = grid]_vars

\* ------------------------------------------------------------------------
\* C21
\* ------------------------------------------------------------------------
\* C21: for a region taken from a grid of R active rows and C active
\* columns, get_active_rows_columns returns R and C, the pair the grid's
\* get_active_geometry returns, and get_active_geometry of the region
\* returns the locations row1*C + col1 and row2*C + col2 in that R x C grid.
ActiveGeometryOfGrid ==
    Indexed =>
        \A a \in {GetActiveRowsColumns(last.spec)} :
            /\ <<a[1], a[2]>> = GridActiveGeometry(grid)
            /\ SpecActiveGeometry(last.spec)
                = <<grid.nrows_active, grid.ncols_active,
                    a[3] * grid.ncols_active + a[5], a[4] * grid.ncols_active + a[6]>>

\* what the code returns: one row and one column less than the grid has,
\* and locations counted in rows of that many columns
ActiveGeometryShort ==
    Indexed =>
        \A a \in {GetActiveRowsColumns(last.spec)} :
            /\ <<a[1], a[2]>> = <<grid.nrows_active - 1, grid.ncols_active - 1>>
            /\ SpecActiveGeometry(last.spec)
                = <<a[1], a[2], a[3] * (grid.ncols_active - 1) + a[5],
                    a[4] * (grid.ncols_active - 1) + a[6]>>

\* ------------------------------------------------------------------------
\* C22
\* ------------------------------------------------------------------------
\* the step solves again what a solve that returned has left behind
Resolved == SolveReturned /\ last'.op = "solve"

\* the solve of the step returns what the solve before it returned
SameGeometry ==
    /\ last'.geo.err = ""
    /\ figsize' = figsize
    /\ kw' = kw
    /\ last'.geo.gridspec_kw = last.geo.gridspec_kw

\* the solve of the step keeps the proportions between the main ratios it
\* was given
SameProportions ==
    last'.geo.err = "" =>
        /\ Rescaled(kw.wpanels, kw.wratios, kw'.wratios)
        /\ Rescaled(kw.hpanels, kw.hratios, kw'.hratios)

\* C22: no drift.  A solve of the keyword args that a solve that returned
\* has left behind returns again, with the same figure size, the same ratio
\* arrays and the same margins, and every solve that returns keeps the
\* proportions between the main ratios it was given; this includes the
\* solves whose main-content extent is exactly zero.
NoDrift ==
    [][/\ last'.op = "solve" => SameProportions
       /\ Resolved => SameGeometry]_vars

\* the same for the solves that left main ratios behind that do not add up
\* to zero
NoDriftNonzero ==
    [][/\ (last'.op = "solve" /\ ~REq(MainTotal(kw.wpanels, kw.wratios), Zero)
                              /\ ~REq(MainTotal(kw.hpanels, kw.hratios), Zero)) => SameProportions
       /\ (Resolved /\ ~REq(MainTotal(kw.wpanels, kw.wratios), Zero)
                    /\ ~REq(MainTotal(kw.hpanels, kw.hratios), Zero)) => SameGeometry]_vars

\* ------------------------------------------------------------------------
\* C23
\* ------------------------------------------------------------------------
\* every gap the walk picked in the tag array lies between two main slots
\* (gap g, 1-based, lies between slots g and g+1)
BetweenMains(panels) ==
    \A j \in 1..Len(SpaceIdxs(panels)) :
        \A g \in {SpaceIdxs(panels)[j]} :
            g # 0 => panels[g] = "" /\ panels[g + 1] = ""

\* C23: the main spaces of a solve are gaps whose two neighbouring slots are
\* both main; a gap next to a panel slot (tag l, r, b, t or f) is never a
\* main space and so never part of the reference cell's internal space.
MainSpacesBetweenMains ==
    last.op = "solve" => BetweenMains(req.wpanels) /\ BetweenMains(req.hpanels)

\* what the walk does pick: for each main slot but the last, the gap before
\* the first slot after it that is main or tagged r, b or f
MainSpacesBeforeStop ==
    last.op = "solve" =>
        \A panels \in {req.wpanels, req.hpanels} :
            \A j \in 1..Len(SpaceIdxs(panels)) :
                \A g \in {SpaceIdxs(panels)[j]}, m \in {MainIdx(panels)[j]} :
                    g # 0 => /\ g >= m
                             /\ panels[g + 1] \in {"", "r", "b", "f"}
                             /\ \A i \in (m + 1)..g : panels[i] \in {"l", "t"}

\* ------------------------------------------------------------------------
\* C24
\* ------------------------------------------------------------------------
\* the region new lies on the grid of the figure after the step and is the
\* region old after the insertion of the step
Remapped(old, new) ==
    /\ new.gid = grid'.id
    /\ Moved(old, new, last'.s, last'.idx)

\* C24: after a panel call that made room for a new slot, every placement
\* that existed before, of a main axes, an axes panel, a figure panel or a
\* nested gridspec of child axes, visible or not, lies on the new gridspec
\* with its coordinates corrected for the insertion.
RemapEvery ==
    [][InsertedNext =>
        /\ \A i \in 1..Len(axs) : Remapped(axs[i].spec, axs'[i].spec)
        /\ \A g \in 1..Len(nested) : Remapped(nested[g].spec, nested'[g].spec)]_vars

\* the same for the axes that Figure._iter_axes yields: the visible main
\* axes and figure panels and the visible axes panels of these
RemapIterated ==
    [][InsertedNext =>
        \A j \in 1..Len(IterAxes(axs)) :
            Remapped(axs[IterAxes(axs)[j]].spec, axs'[IterAxes(axs)[j]].spec)]_vars

\* ------------------------------------------------------------------------
\* Figure.draw and Figure.savefig, step by step
\* ------------------------------------------------------------------------
MaxDraws == 2

\* what get_aspect() and the data ratio of the reference axes give
\* _adjust_aspect: None for the 'auto' mode, else 1/data_ratio
DataAspects == {None, One, I(2)}

\* where the figure is in draw() or savefig(): tight is _auto_tight_layout,
\* aligned tells whether the spanning labels are toggled on, log lists the
\* layout steps of the call that is running (or ran last), draws counts the
\* calls begun
DrawIdle(t) ==
    [op |-> "subplots", s |-> "", ax |-> 0, asked |-> 0, kwp |-> <<>>, exists |-> FALSE, idx |-> 0,
     call |-> "", pc |-> "idle", tight |-> t, aligned |-> FALSE, log |-> <<>>, draws |-> 0]

\* subplots(tight=t, **req)
FigureInit ==
    /\ phase = "new"
    /\ \E geo \in {SubplotsGeometry(InitialKw(req))} : SubplotsWith(geo)
    /\ \E t \in BOOLEAN : last' = DrawIdle(t)
    /\ UNCHANGED <<req, passes>>

Drawing(pc) == phase = "ready" /\ last.op \in {"subplots", "draw"} /\ last.pc = pc

\* the step of the running call returned, the call goes on at pc
DrawGoes(step, pc) ==
    last' = [last EXCEPT !.op = "draw", !.pc = pc, !.log = Append(@, step)]

\* draw(renderer) or savefig(filename) is called; savefig without a
\* renderer warns and goes on to Figure.savefig
DrawBegin ==
    /\ Drawing("idle")
    /\ last.draws < MaxDraws
    /\ \E call \in {"draw", "savefig"}, renderer \in BOOLEAN :
        /\ call = "draw" => renderer
        /\ last' = [last EXCEPT !.op = "draw", !.call = call, !.log = <<>>, !.draws = @ + 1,
                                !.pc = IF renderer THEN "aspect" ELSE "super"]
    /\ UNCHANGED <<phase, err, req, kw, orig, figsize, grid, axs, nested, farray, passes>>

\* the end of _adjust_aspect for the solver's answer geo to the keyword
\* args k: the figure is resized and the gridspec updated
AspectUpdate(st, k, geo) ==
    LET upd == SpacesAsRatios(st.grid.nrows_active, st.grid.ncols_active, geo.gridspec_kw)
    IN  IF geo.err # "" THEN [err |-> geo.err, st |-> [st EXCEPT !.kw = k]]
        ELSE IF upd.err # "" THEN [err |-> upd.err, st |-> [st EXCEPT !.kw = k, !.figsize = geo.figsize]]
        ELSE [err |-> "",
              st |-> [st EXCEPT !.kw = k, !.figsize = geo.figsize,
                                !.grid = GridUpdate(st.grid, geo.gridspec_kw)]]

\* _adjust_aspect() where the reference axes gives the aspect a
AdjustAspectResult(st, a) ==
    IF st.axs = <<>> \/ a = None THEN [err |-> "", st |-> st]
    ELSE IF st.kw.aspect.iterable THEN [err |-> "TypeError", st |-> st]
    ELSE IF REq(a, st.kw.aspect.v[1]) THEN [err |-> "", st |-> st]
    ELSE LET k == [st.kw EXCEPT !.aspect = Scalar(a)]
         IN  AspectUpdate(st, k, SubplotsGeometry(k))

AdjustAspect ==
    /\ Drawing("aspect")
    /\ \E a \in DataAspects : \E r \in {AdjustAspectResult(St, a)} : TightFinish(r)
    /\ DrawGoes("aspect", "alignoff")
    /\ UNCHANGED <<req, passes>>

\* _align_axislabels(b)
AlignAxislabels(b) ==
    /\ Drawing(IF b THEN "alignon" ELSE "alignoff")
    /\ last' = [last EXCEPT !.op = "draw", !.aligned = b,
                            !.log = Append(@, IF b THEN "alignon" ELSE "alignoff"),
                            !.pc = IF ~b THEN "suplabels"
                                   ELSE IF last.call = "savefig" THEN "super" ELSE "idle"]
    /\ UNCHANGED <<phase, err, req, kw, orig, figsize, grid, axs, nested, farray, passes>>

\* _align_suplabels(renderer), then the test of _auto_tight_layout
AlignSuplabels ==
    /\ Drawing("suplabels")
    /\ DrawGoes("suplabels", IF last.tight THEN "tight" ELSE "alignon")
    /\ UNCHANGED <<phase, err, req, kw, orig, figsize, grid, axs, nested, farray, passes>>

\* _adjust_tight_layout(renderer) inside draw() or savefig()
DrawTightLayout ==
    /\ Drawing("tight")
    /\ \E ext \in Measures(Len(axs)) : \E r \in {TightLayoutResult(St, ext)} : TightFinish(r)
    /\ passes' = passes + 1
    /\ DrawGoes("tight", "alignon")
    /\ UNCHANGED req

\* super().savefig(filename): the canvas prints the figure, which draws it
SuperSavefig ==
    /\ Drawing("super")
    /\ last' = [last EXCEPT !.call = "draw", !.log = <<>>, !.pc = "aspect"]
    /\ UNCHANGED <<phase, err, req, kw, orig, figsize, grid, axs, nested, farray, passes>>

NextDraw ==
    \/ FigureInit
    \/ DrawBegin
    \/ AdjustAspect
    \/ AlignAxislabels(FALSE)
    \/ AlignSuplabels
    \/ DrawTightLayout
    \/ AlignAxislabels(TRUE)
    \/ SuperSavefig

SpecDraw == Init /\ [][NextDraw]_vars

\* ------------------------------------------------------------------------
\* C25
\* ------------------------------------------------------------------------
\* the layout steps of one draw, in order
LayoutSteps(tight) ==
    <<"aspect", "alignoff", "suplabels">> \o (IF tight THEN <<"tight">> ELSE <<>>) \o <<"alignon">>

IsPrefix(s, t) == Len(s) <= Len(t) /\ s = SubSeq(t, 1, Len(s))

\* a draw, or the layout part of a savefig with a renderer, was begun and
\* has ended, by returning or by raising
DrawEnded ==
    /\ last.op = "draw"
    /\ \/ phase = "failed"
       \/ last.pc = "idle"
       \/ last.pc = "super" /\ last.log # <<>>

DrawReturned == DrawEnded /\ phase = "ready"

\* C25: in every draw and every savefig with a renderer the layout steps run
\* in the order aspect adjustment, spanning labels off, super labels,
\* tight-layout refinement (once, and only when tight layout is enabled),
\* spanning labels on; the spanning labels are on at the end of every draw.
DrawStepsInOrder ==
    /\ last.op = "draw" => IsPrefix(last.log, LayoutSteps(last.tight))
    /\ DrawEnded => last.log = LayoutSteps(last.tight) /\ last.aligned

\* what holds of the code: the steps that run do so in that order, and a
\* draw that returns has run them all and left the spanning labels on
DrawStepsOfReturn ==
    /\ last.op = "draw" => IsPrefix(last.log, LayoutSteps(last.tight))
    /\ DrawReturned => last.log = LayoutSteps(last.tight) /\ last.aligned

\* the refinement never runs while the spanning labels are on
RefinesUnaligned == [][passes' # passes => ~last.aligned /\ last.tight]_vars

\* ------------------------------------------------------------------------
\* C26
\* ------------------------------------------------------------------------
\* the step is a panel call that raised
PanelCallRaised == last'.op \in {"axpanel", "figpanel"} /\ phase' = "failed"

\* C26: a panel insertion that fails leaves the counts, the tag, ratio,
\* space and override arrays, the grid and every placement as they were
\* before the call.
InsertAtomic ==
    [][PanelCallRaised =>
        /\ kw' = kw
        /\ orig' = orig
        /\ grid' = grid
        /\ axs' = axs
        /\ nested' = nested]_vars

\* what a failed insertion does keep: the grid and the placements
InsertFailureKeepsGrid ==
    [][PanelCallRaised =>
        /\ grid' = grid
        /\ axs' = axs
        /\ nested' = nested]_vars

\* ------------------------------------------------------------------------
\* C27
\* ------------------------------------------------------------------------
\* the tag of active slot c (0-based) along the columns (lr) or the rows
TagAt(lr, c) ==
    LET panels == PanelsOf(kw, lr)
    IN  IF c + 1 \in 1..Len(panels) THEN panels[c + 1] ELSE "none"

\* the number of main slots among the active slots 0..c
MainRank(lr, c) == Cardinality({m \in 1..(c + 1) : TagAt(lr, m - 1) = ""})

\* main axes i lies on main slots, the same ones as in the layout array
MainOnMain(i) ==
    LET c == GetActiveRowsColumns(axs[i].spec)
    IN  /\ TagAt(FALSE, c[3]) = "" /\ TagAt(FALSE, c[4]) = ""
        /\ TagAt(TRUE, c[5]) = "" /\ TagAt(TRUE, c[6]) = ""
        /\ MainRank(FALSE, c[3]) = YRangeOf(req.array, i)[1] + 1
        /\ MainRank(FALSE, c[4]) = YRangeOf(req.array, i)[2] + 1
        /\ MainRank(TRUE, c[5]) = XRangeOf(req.array, i)[1] + 1
        /\ MainRank(TRUE, c[6]) = XRangeOf(req.array, i)[2] + 1

\* the slot of axes i along the axis of side s that faces outwards on side s
EdgeSlot(i, s) ==
    LET c == GetActiveRowsColumns(axs[i].spec)
    IN  IF s = "l" THEN c[5] ELSE IF s = "r" THEN c[6] ELSE IF s = "t" THEN c[3] ELSE c[4]

\* axes panel i lies on one slot tagged with its side, next to its parent
\* or to the panel before it in the parent's stack
PanelOnSide(i) ==
    LET s == axs[i].side
        lr == s \in {"l", "r"}
        c == GetActiveRowsColumns(axs[i].spec)
        stack == axs[axs[i].parent].panels[s]
        k == CHOOSE n \in 1..Len(stack) : stack[n] = i
        before == IF k = 1 THEN axs[i].parent ELSE stack[k - 1]
        out == IF s \in {"l", "t"} THEN -1 ELSE 1
    IN  /\ \E n \in 1..Len(stack) : stack[n] = i
        /\ IF lr THEN c[5] = c[6] ELSE c[3] = c[4]
        /\ TagAt(lr, EdgeSlot(i, s)) = s
        /\ EdgeSlot(i, s) = EdgeSlot(before, s) + out

\* figure panel i lies on one slot tagged "f"
FigurePanelOnF(i) ==
    LET lr == axs[i].side \in {"l", "r"}
        c == GetActiveRowsColumns(axs[i].spec)
    IN  /\ IF lr THEN c[5] = c[6] ELSE c[3] = c[4]
        /\ TagAt(lr, EdgeSlot(i, axs[i].side)) = "f"

CellsCovered(ss) ==
    LET c == PhysRowsColumns(ss)
    IN  {<<r, k>> : r \in c[1]..c[2], k \in c[3]..c[4]}

\* C28: after any sequence of axes-panel and figure-panel insertions no
\* two placements, main cells and panels alike, cover a common physical
\* cell of the grid.
PlacementsDisjoint ==
    phase = "ready" =>
        \A i, j \in 1..Len(axs) :
            i # j => CellsCovered(axs[i].spec) \cap CellsCovered(axs[j].spec) = {}

\* two figure panels with partial spans share one slot
FigurePanelsShareSlot ==
    /\ phase = "ready"
    /\ \E i, j \in 1..Len(axs) :
        /\ i # j
        /\ axs[i].kind = "figpanel" /\ axs[j].kind = "figpanel"
        /\ axs[i].side = axs[j].side
        /\ EdgeSlot(i, axs[i].side) = EdgeSlot(j, axs[i].side)

\* ------------------------------------------------------------------------
\* C29
\* ------------------------------------------------------------------------
SameNumbers(s, t) == Len(s) = Len(t) /\ \A i \in 1..Len(s) : REq(s[i], t[i])

\* the solve that returned was given the reference width (lr) or height and
\* no other size
SolvedFromAx(lr) ==
    /\ SolveReturned
    /\ IsNone(req.width) /\ IsNone(req.height)
    /\ IF lr THEN ~IsNone(req.axwidth) /\ IsNone(req.axheight)
       ELSE IsNone(req.axwidth) /\ ~IsNone(req.axheight)

\* the same constraints with the figure extent that solve returned in place
\* of the reference extent
BackInput(lr) ==
    IF lr THEN [req EXCEPT !.axwidth = None, !.width = last.geo.figsize[1]]
    ELSE [req EXCEPT !.axheight = None, !.height = last.geo.figsize[2]]

\* solving k gives the figure size, the ratio arrays and the main extents
\* of the solve that returned
SolvesAlike(k) ==
    \A g \in {SubplotsGeometry(k)} : \A d \in {Dims(k)} : \A d0 \in {Dims(req)} :
        /\ g.err = ""
        /\ REq(g.figsize[1], last.geo.figsize[1])
        /\ REq(g.figsize[2], last.geo.figsize[2])
        /\ SameNumbers(g.kwargs.wratios, last.geo.kwargs.wratios)
        /\ SameNumbers(g.kwargs.hratios, last.geo.kwargs.hratios)
        /\ REq(d.axwidth_all, d0.axwidth_all)
        /\ REq(d.axheight_all, d0.axheight_all)
        /\ REq(d.axwidth, d0.axwidth)
        /\ REq(d.axheight, d0.axheight)

\* C29: when a solve from the reference width a (no figure width) returns
\* the figure width W, the solve of the same constraints from the width W
\* (no reference width) gives the same main extent and ratio arrays and a
\* reference width equal to a; the same for the reference height and the
\* figure height.
SolveDirectionsInverse ==
    /\ SolvedFromAx(TRUE) =>
        /\ SolvesAlike(BackInput(TRUE))
        /\ REq(Dims(BackInput(TRUE)).axwidth, req.axwidth)
    /\ SolvedFromAx(FALSE) =>
        /\ SolvesAlike(BackInput(FALSE))
        /\ REq(Dims(BackInput(FALSE)).axheight, req.axheight)

\* a solve from the reference width of a layout with a panel column and a
\* reference cell of two columns returned
SolvedBackWithPanel ==
    /\ SolvedFromAx(TRUE)
    /\ \E i \in 1..Len(req.wpanels) : req.wpanels[i] # ""
    /\ req.xref[1] # req.xref[2]

\* ------------------------------------------------------------------------
\* C30
\* ------------------------------------------------------------------------
\* the walk over the tag array panels stays inside the array and gives one
\* gap for every main slot but the last, at or after that slot and before
\* the next main slot (gap g, 1-based, lies between slots g and g+1)
WalkInBounds(panels) ==
    \A m \in {MainIdx(panels)} : \A gaps \in {SpaceIdxs(panels)} :
        m # <<>> =>
            /\ ~WalkError(panels)
            /\ Len(gaps) = Len(m) - 1
            /\ \A j \in 1..Len(gaps) : m[j] <= gaps[j] /\ gaps[j] < m[j + 1]
            /\ \A j \in 1..(Len(gaps) - 1) : gaps[j] < gaps[j + 1]

\* C30: for every tag array with a main slot the walk that looks for the
\* main space after each main slot but the last ends inside the array and
\* gives (number of main slots - 1) gaps in strictly increasing order, each
\* between its main slot and the next one.
WalkFindsGaps ==
    kw # <<>> => WalkInBounds(kw.wpanels) /\ WalkInBounds(kw.hpanels)

\* a solve walked past a panel slot to find the main space of a main slot
WalkedPastPanel ==
    /\ last.op \in {"axpanel", "figpanel", "solve", "tight"}
    /\ kw # <<>>
    /\ \E panels \in {kw.wpanels, kw.hpanels} :
        /\ ~WalkError(panels)
        /\ \E j \in 1..Len(SpaceIdxs(panels)) : SpaceIdxs(panels)[j] > MainIdx(panels)[j]
====
